---------------------------- MODULE Spec2Model ----------------------------
(***************************************************************************)
(* Form-page workflow assistant: the workflow state machine of             *)
(* backend/clientreset.py (MCPAIAssistant), the tools of                   *)
(* backend/mcpserver.py it calls, and the HTTP entry points of             *)
(* backend/apiserverreset.py; and the older assistant of                   *)
(* backend/mcpclient.py behind the entry points of backend/api_server.py.  *)
(*                                                                         *)
(* Python values are encoded as follows.                                   *)
(*   str          a sequence of one-character strings                      *)
(*   Optional[x]  None == <<>>, a present value x is Some(x) == <<x>>      *)
(*   dict / JSON  a function from key strings; d.get(k, dflt) is Get       *)
(***************************************************************************)
EXTENDS Integers, Sequences, FiniteSets, TLC

(***************************************************************************)
(* Bounds of the model.                                                    *)
(***************************************************************************)
MaxFields == 2
MaxHistory == 4
MaxOverlap == 1

(***************************************************************************)
(* Optional values.                                                        *)
(***************************************************************************)
None == <<>>

Some(x) == <<x>>

IsNone(o) == o = <<>>

Val(o) == o[1]

(***************************************************************************)
(* Python str operations used by the workflow, on character sequences.     *)
(***************************************************************************)
UPPER == <<"A","B","C","D","E","F","G","H","I","J","K","L","M",
           "N","O","P","Q","R","S","T","U","V","W","X","Y","Z">>

LOWER == <<"a","b","c","d","e","f","g","h","i","j","k","l","m",
           "n","o","p","q","r","s","t","u","v","w","x","y","z">>

LowerChar(c) ==
    IF \E i \in 1..26 : UPPER[i] = c
    THEN LOWER[CHOOSE i \in 1..26 : UPPER[i] = c]
    ELSE c

UpperChar(c) ==
    IF \E i \in 1..26 : LOWER[i] = c
    THEN UPPER[CHOOSE i \in 1..26 : LOWER[i] = c]
    ELSE c

Lower(s) == [i \in 1..Len(s) |-> LowerChar(s[i])]

Upper(s) == [i \in 1..Len(s) |-> UpperChar(s[i])]

IsSpace(c) == c = " "

RECURSIVE LStrip(_)
LStrip(s) == IF s # <<>> /\ IsSpace(Head(s)) THEN LStrip(Tail(s)) ELSE s

RECURSIVE RStrip(_)
RStrip(s) ==
    IF s # <<>> /\ IsSpace(s[Len(s)]) THEN RStrip(SubSeq(s, 1, Len(s) - 1)) ELSE s

Strip(s) == RStrip(LStrip(s))

\* Python `w in s` for two strings: w occurs in s as a substring.
Contains(s, w) ==
    \E i \in 1..(Len(s) - Len(w) + 1) : SubSeq(s, i, i + Len(w) - 1) = w

\* Python `any(w in s for w in words)`.
ContainsAny(s, words) == \E k \in 1..Len(words) : Contains(s, words[k])

\* Python `s in words` for a list of strings.
InList(s, words) == \E k \in 1..Len(words) : words[k] = s

\* str.capitalize(): first character upper-cased, the rest lower-cased.
Capitalize(s) ==
    [i \in 1..Len(s) |-> IF i = 1 THEN UpperChar(s[i]) ELSE LowerChar(s[i])]

\* str.split(): the maximal runs of non-whitespace characters, in order.
RECURSIVE SplitFrom(_, _, _)
SplitFrom(s, i, cur) ==
    IF i > Len(s)
    THEN IF cur = <<>> THEN <<>> ELSE <<cur>>
    ELSE IF IsSpace(s[i])
         THEN IF cur = <<>>
              THEN SplitFrom(s, i + 1, <<>>)
              ELSE <<cur>> \o SplitFrom(s, i + 1, <<>>)
         ELSE SplitFrom(s, i + 1, Append(cur, s[i]))

Split(s) == SplitFrom(s, 1, <<>>)

RECURSIVE Concat(_)
Concat(ss) == IF ss = <<>> THEN <<>> ELSE Head(ss) \o Concat(Tail(ss))

\* str.replace(old, new) for a one-character old.
RECURSIVE ReplaceChar(_, _, _)
ReplaceChar(s, old, new) ==
    IF s = <<>> THEN <<>>
    ELSE (IF Head(s) = old THEN new ELSE <<Head(s)>>)
         \o ReplaceChar(Tail(s), old, new)

\* str.title(): a letter is upper-cased when it follows a non-letter (or
\* starts the string) and lower-cased otherwise.
IsAlpha(c) == \E i \in 1..26 : UPPER[i] = c \/ LOWER[i] = c

Title(s) ==
    [i \in 1..Len(s) |->
        IF i = 1 \/ ~IsAlpha(s[i - 1]) THEN UpperChar(s[i]) ELSE LowerChar(s[i])]

\* str(n) for a natural number n.
DIGITS == <<"0","1","2","3","4","5","6","7","8","9">>

RECURSIVE IntToStr(_)
IntToStr(n) ==
    IF n < 10 THEN <<DIGITS[n + 1]>>
    ELSE IntToStr(n \div 10) \o <<DIGITS[(n % 10) + 1]>>

\* dict.get(key, default)
Get(d, key, default) == IF key \in DOMAIN d THEN d[key] ELSE default

\* truthiness of d.get(key) for a key that holds a bool when present
GetFlag(d, key) == key \in DOMAIN d /\ d[key]


(***************************************************************************)
(* String literals of the program and sample utterances.                   *)
(***************************************************************************)
U_create_a_form == <<"c","r","e","a","t","e"," ","a"," ","f","o","r","m">>

U_hello == <<"h","e","l","l","o">>

U_Acme_Inc == <<"A","c","m","e"," ","I","n","c">>

U_Onboarding == <<"O","n","b","o","a","r","d","i","n","g">>

U_Payroll == <<"P","a","y","r","o","l","l">>

U_yes == <<"y","e","s">>

U_no == <<"n","o">>

U_retry == <<"r","e","t","r","y">>

U_ok == <<"o","k">>

U_Task_Details == <<"T","a","s","k"," ","D","e","t","a","i","l","s">>

U_email == <<"e","m","a","i","l">>

U_name == <<"n","a","m","e">>

U_label == <<"l","a","b","e","l">>

U_E == <<"E">>

U_e_padded == <<" ","e"," ">>

U_done == <<"d","o","n","e">>

U_empty == <<>>

U_status == <<"s","t","a","t","u","s">>

U_process_id == <<"p","r","o","c","e","s","s"," ","i","d">>

AllUtterances ==
    { U_create_a_form, U_hello, U_Acme_Inc, U_Onboarding, U_Payroll, U_yes,
      U_no, U_retry, U_ok, U_Task_Details, U_email, U_name, U_label, U_E,
      U_e_padded, U_done, U_empty, U_status, U_process_id }

(***************************************************************************)
(* WorkflowState                                                           *)
(***************************************************************************)
IDLE == "idle"

ORG_NEEDED == "org_needed"

PROCESS_NEEDED == "process_needed"

PROCESS_CREATION_CONFIRM == "process_creation_confirm"

EVENT_NEEDED == "event_needed"

PAGE_TITLE_NEEDED == "page_title_needed"

FIELDS_NEEDED == "fields_needed"

FIELD_CREATION_CONFIRM == "field_creation_confirm"

FIELD_DISPLAY_TYPE == "field_display_type"

FIELD_VALIDATION_TYPE == "field_validation_type"

SQL_GENERATION == "sql_generation"

COMPLETE == "complete"

WorkflowState ==
    { IDLE, ORG_NEEDED, PROCESS_NEEDED, PROCESS_CREATION_CONFIRM, EVENT_NEEDED,
      PAGE_TITLE_NEEDED, FIELDS_NEEDED, FIELD_CREATION_CONFIRM,
      FIELD_DISPLAY_TYPE, FIELD_VALIDATION_TYPE, SQL_GENERATION, COMPLETE }

(***************************************************************************)
(* Word lists the state machine tests utterances against.                  *)
(***************************************************************************)
StartPhrases == <<<<"c","r","e","a","t","e">>, <<"f","o","r","m">>, <<"p","a","g","e">>, <<"b","u","i","l","d">>, <<"y","e","s">>>>

OrgAckWords == <<<<"y","e","s">>, <<"o","k">>, <<"s","u","r","e">>, <<"p","r","o","c","e","e","d">>, <<"s","t","a","r","t">>>>

ContinueWords == <<<<"o","k">>, <<"n","e","x","t">>, <<"c","o","n","t","i","n","u","e">>, <<"p","r","o","c","e","e","d">>>>

ProcessAffirmWords == <<<<"y","e","s">>, <<"y">>, <<"c","r","e","a","t","e">>, <<"o","k">>, <<"s","u","r","e">>, <<"p","r","o","c","e","e","d">>>>

ProcessNegativeWords == <<<<"n","o">>, <<"n">>, <<"w","r","o","n","g">>, <<"c","a","n","c","e","l">>, <<"r","e","t","r","y">>>>

DoneWords == <<<<"d","o","n","e">>, <<"f","i","n","i","s","h">>, <<"c","o","m","p","l","e","t","e">>, <<"n","o"," ","m","o","r","e"," ","f","i","e","l","d","s">>>>

FieldAffirmWords == <<<<"y","e","s">>, <<"y">>, <<"c","r","e","a","t","e">>, <<"o","k">>, <<"s","u","r","e">>>>

FieldNegativeWords == <<<<"n","o">>, <<"n">>, <<"c","a","n","c","e","l">>, <<"s","k","i","p">>>>

valid_types == <<<<"l","a","b","e","l">>, <<"c","h","e","c","k","b","o","x">>, <<"r","a","d","i","o">>, <<"t","e","x","t","a","r","e","a">>, <<"s","e","l","e","c","t">>, <<"d","a","t","e">>>>

StatusCommands == <<<<"s","h","o","w"," ","m","e","m","o","r","y">>, <<"s","h","o","w"," ","s","t","a","t","e">>, <<"s","t","a","t","u","s">>>>

W_process == <<"p","r","o","c","e","s","s">>

W_id == <<"i","d">>

(***************************************************************************)
(* The database behind the lookup tools: the rows of the tables the        *)
(* tools query.                                                            *)
(***************************************************************************)
organizations == { [orgId |-> <<"O","1">>, legalName |-> U_Acme_Inc] }

orgProcesses ==
    { [processId |-> 100, processName |-> U_Payroll, orgId |-> <<"O","1">>] }

orgProcessEvents ==
    { [processId |-> 100, orgId |-> <<"O","1">>, eventId |-> 101] }

adminFields ==
    { [fieldId |-> <<"N","a","m","e">>, displayType |-> U_label,
       validationType |-> <<"N">>] }

SetMax(S) == CHOOSE x \in S : \A y \in S : y <= x

(***************************************************************************)
(* Tools of the server.  db is FALSE when the database call raises.        *)
(***************************************************************************)
get_organization_by_name(legal_name, db) ==
    IF ~db THEN [success |-> FALSE, error |-> "database error"]
    ELSE LET rows == { r \in organizations : r.legalName = legal_name }
         IN  IF rows # {}
             THEN LET row == CHOOSE r \in rows : TRUE
                  IN  [success |-> TRUE, found |-> TRUE, orgId |-> row.orgId,
                       legalName |-> row.legalName]
             ELSE [success |-> TRUE, found |-> FALSE, message |-> "not found"]

get_process_by_name(process_name, org_id, db) ==
    IF ~db THEN [success |-> FALSE, error |-> "database error"]
    ELSE LET rows == { r \in orgProcesses :
                          r.processName = process_name /\ Some(r.orgId) = org_id }
         IN  IF rows # {}
             THEN LET row == CHOOSE r \in rows : TRUE
                  IN  [success |-> TRUE, found |-> TRUE,
                       processId |-> row.processId,
                       processName |-> row.processName, orgId |-> row.orgId]
             ELSE [success |-> TRUE, found |-> FALSE, message |-> "not found"]

get_max_process_id(db) ==
    IF ~db THEN [success |-> FALSE, error |-> "database error"]
    ELSE LET max_id == IF orgProcesses = {} THEN 0
                       ELSE SetMax({ r.processId : r \in orgProcesses })
             next_id == max_id + 100
         IN  [success |-> TRUE, maxProcessId |-> max_id,
              suggestedNextProcessId |-> next_id]

get_events_for_process(process_id, org_id, db) ==
    IF ~db
    THEN [success |-> FALSE, error |-> "database error",
          error_type |-> "Exception", message |-> "database error"]
    ELSE LET events == { r \in orgProcessEvents :
                            Some(r.processId) = process_id /\ Some(r.orgId) = org_id }
             next_event_id == IF events # {}
                              THEN Some(SetMax({ e.eventId : e \in events }) + 1)
                              ELSE process_id
         IN  [success |-> TRUE, count |-> Cardinality(events),
              suggestedNextEventId |-> next_event_id, message |-> "events"]

check_field_exists(field_id, db) ==
    IF ~db
    THEN [success |-> TRUE, found |-> FALSE, error |-> "database error",
          error_type |-> "Exception", searchedFor |-> field_id,
          message |-> "unable to check"]
    ELSE LET rows == { r \in adminFields : Lower(r.fieldId) = Lower(field_id) }
         IN  IF rows # {}
             THEN LET row == CHOOSE r \in rows : TRUE
                  IN  [success |-> TRUE, found |-> TRUE, fieldId |-> row.fieldId,
                       displayType |-> row.displayType,
                       validationType |-> row.validationType,
                       message |-> "exists"]
             ELSE [success |-> TRUE, found |-> FALSE, searchedFor |-> field_id,
                   message |-> "not found"]

generate_page_url(page_title) ==
    LET words == Split(page_title)
    IN  IF words = <<>>
        THEN [success |-> FALSE, error |-> "Empty page title"]
        ELSE [success |-> TRUE, pageTitle |-> page_title,
              pageDisplayName |-> page_title,
              pageURL |-> Lower(words[1])
                          \o Concat([i \in 1..(Len(words) - 1) |->
                                        Capitalize(words[i + 1])])]

(***************************************************************************)
(* SQL generation.  The output is the list `output` of text blocks; an     *)
(* INSERT block is a record that holds, per substituted column, the exact  *)
(* text the template emits there.                                          *)
(***************************************************************************)
S_None == <<"N","o","n","e">>

S_NULL == <<"N","U","L","L">>

\* str(v) / {{ v }} for an optional string
PyStr(o) == IF IsNone(o) THEN S_None ELSE Val(o)

\* str(v) / {{ v }} for an optional integer
PyStrInt(o) == IF IsNone(o) THEN S_None ELSE IntToStr(Val(o))

\* the jinja filter  replace("'", "''")
EscapeQuotes(s) == ReplaceChar(s, "'", <<"'", "'">>)

\* a literal written between single quotes in a template
Quoted(s) == <<"'">> \o s \o <<"'">>

\* '{% if v %}{{ v }}{% else %}NULL{% endif %}'
QuotedOrNull(o, escape) ==
    IF IsNone(o) \/ Val(o) = <<>>
    THEN Quoted(S_NULL)
    ELSE Quoted(IF escape THEN EscapeQuotes(Val(o)) ELSE Val(o))

Blank == [section |-> "blank"]

HeaderBlock(form_data) ==
    [section |-> "header",
     org_name |-> PyStr(form_data.org_name),
     org_id |-> PyStr(form_data.org_id),
     process_name |-> PyStr(form_data.process_name),
     process_id |-> PyStrInt(form_data.process_id),
     page_title |-> PyStr(form_data.page_title),
     page_id |-> PyStrInt(form_data.page_id)]

OrgProcessesBlock(form_data, today) ==
    [section |-> "orgProcesses",
     orgId |-> Quoted(PyStr(form_data.org_id)),
     processId |-> PyStrInt(form_data.process_id),
     processName |-> Quoted(EscapeQuotes(PyStr(form_data.process_name))),
     pageId |-> PyStrInt(form_data.process_id),
     apiRouteName |-> Quoted(EscapeQuotes(PyStr(form_data.process_name))),
     fromDate |-> today]

OrgProcessEventsBlock(form_data, today) ==
    [section |-> "orgProcessEvents",
     orgId |-> Quoted(PyStr(form_data.org_id)),
     processId |-> PyStrInt(form_data.process_id),
     eventId |-> PyStrInt(form_data.event_id),
     eventName |-> Quoted(EscapeQuotes(PyStr(form_data.event_name))),
     pageId |-> PyStrInt(form_data.page_id),
     fromDate |-> today]

AdminPagesBlock(form_data) ==
    [section |-> "adminPages",
     pageId |-> PyStrInt(form_data.page_id),
     pageURL |-> Quoted(PyStr(form_data.page_url)),
     pageTitle |-> Quoted(EscapeQuotes(PyStr(form_data.page_title))),
     pageDisplayName |-> Quoted(EscapeQuotes(PyStr(form_data.page_title))),
     processId |-> PyStrInt(form_data.process_id),
     eventId |-> PyStrInt(form_data.event_id)]

AdminFormGroupsBlock(form_data) ==
    [section |-> "adminFormGroups",
     groupId |-> IntToStr(form_data.group_id),
     groupName |-> Quoted(<<"G","r","o","u","p","_">> \o IntToStr(form_data.group_id))]

AdminFieldGroupsBlock(form_data, fg_id) ==
    [section |-> "adminFieldGroups",
     fieldGroupId |-> IntToStr(fg_id),
     groupId |-> IntToStr(form_data.group_id)]

\* field.get('display_type', 'label') and field.get('validation_type', 'E'):
\* the default stands in for a missing key only, a null renders as None
AdminFieldsBlock(field, today) ==
    [section |-> "adminFields",
     fieldId |-> Quoted(PyStr(field.field_id)),
     dataFieldId |-> Quoted(PyStr(field.field_id)),
     fromDate |-> today,
     displayType |-> Quoted(PyStr(Get(field, "display_type", Some(U_label)))),
     validationType |->
        Quoted(PyStr(Get(field, "validation_type", Some(U_E))))]

\* render_context = {**base_data, **pv}: a key of the page value stands
\* before the same key of base_data; a name the context lacks is undefined
\* (false in a test, empty when printed)
OrgPageValuesBlock(form_data, pv, idx, today) ==
    [section |-> "orgPageValues",
     pageId |-> PyStrInt(Get(pv, "page_id", form_data.page_id)),
     recSeq |-> IntToStr(Get(pv, "rec_seq", idx)),
     orgId |-> Quoted(PyStr(Get(pv, "org_id", form_data.org_id))),
     groupId |-> IntToStr(Get(pv, "group_id", form_data.group_id)),
     fieldGroupId |-> IntToStr(Get(pv, "field_group_id", form_data.group_id)),
     fieldId |-> Quoted(PyStr(Get(pv, "field_id", Some(<<>>)))),
     displayLabel |-> QuotedOrNull(Get(pv, "display_label", None), TRUE),
     displayType |-> QuotedOrNull(Get(pv, "display_type", None), FALSE),
     fromDate |-> Get(pv, "today", today),
     validationType |-> QuotedOrNull(Get(pv, "validation_type", None), FALSE)]

\* a faulty variant of the renderer: the orgProcesses INSERT is not conditional
generate_sql_statements_ProcessAlways(form_data, today) ==
    <<HeaderBlock(form_data), Blank>>
    \o <<OrgProcessesBlock(form_data, today), Blank>>
    \o <<OrgProcessEventsBlock(form_data, today), Blank>>
    \o <<AdminPagesBlock(form_data), Blank>>
    \o (IF form_data.is_new_group
        THEN <<AdminFormGroupsBlock(form_data), Blank>> ELSE <<>>)
    \o (IF Len(form_data.field_groups) > 0
        THEN [i \in 1..Len(form_data.field_groups) |->
                 AdminFieldGroupsBlock(form_data, form_data.field_groups[i])]
             \o <<Blank>>
        ELSE <<>>)
    \o (IF Len(form_data.new_fields) > 0
        THEN [i \in 1..Len(form_data.new_fields) |->
                 AdminFieldsBlock(form_data.new_fields[i], today)]
             \o <<Blank>>
        ELSE <<>>)
    \o (IF Len(form_data.page_values) > 0
        THEN [i \in 1..Len(form_data.page_values) |->
                 OrgPageValuesBlock(form_data, form_data.page_values[i], i, today)]
             \o <<Blank>>
        ELSE <<>>)

\* a faulty variant of the renderer: adminPages is emitted before orgProcessEvents
generate_sql_statements_PagesFirst(form_data, today) ==
    <<HeaderBlock(form_data), Blank>>
    \o (IF form_data.is_new_process
        THEN <<OrgProcessesBlock(form_data, today), Blank>> ELSE <<>>)
    \o <<AdminPagesBlock(form_data), Blank>>
    \o <<OrgProcessEventsBlock(form_data, today), Blank>>
    \o (IF form_data.is_new_group
        THEN <<AdminFormGroupsBlock(form_data), Blank>> ELSE <<>>)
    \o (IF Len(form_data.field_groups) > 0
        THEN [i \in 1..Len(form_data.field_groups) |->
                 AdminFieldGroupsBlock(form_data, form_data.field_groups[i])]
             \o <<Blank>>
        ELSE <<>>)
    \o (IF Len(form_data.new_fields) > 0
        THEN [i \in 1..Len(form_data.new_fields) |->
                 AdminFieldsBlock(form_data.new_fields[i], today)]
             \o <<Blank>>
        ELSE <<>>)
    \o (IF Len(form_data.page_values) > 0
        THEN [i \in 1..Len(form_data.page_values) |->
                 OrgPageValuesBlock(form_data, form_data.page_values[i], i, today)]
             \o <<Blank>>
        ELSE <<>>)

generate_sql_statements(form_data, today) ==
    <<HeaderBlock(form_data), Blank>>
    \o (IF form_data.is_new_process
        THEN <<OrgProcessesBlock(form_data, today), Blank>> ELSE <<>>)
    \o <<OrgProcessEventsBlock(form_data, today), Blank>>
    \o <<AdminPagesBlock(form_data), Blank>>
    \o (IF form_data.is_new_group
        THEN <<AdminFormGroupsBlock(form_data), Blank>> ELSE <<>>)
    \o (IF Len(form_data.field_groups) > 0
        THEN [i \in 1..Len(form_data.field_groups) |->
                 AdminFieldGroupsBlock(form_data, form_data.field_groups[i])]
             \o <<Blank>>
        ELSE <<>>)
    \o (IF Len(form_data.new_fields) > 0
        THEN [i \in 1..Len(form_data.new_fields) |->
                 AdminFieldsBlock(form_data.new_fields[i], today)]
             \o <<Blank>>
        ELSE <<>>)
    \o (IF Len(form_data.page_values) > 0
        THEN [i \in 1..Len(form_data.page_values) |->
                 OrgPageValuesBlock(form_data, form_data.page_values[i], i, today)]
             \o <<Blank>>
        ELSE <<>>)

\* The generation tool: the client always sends well-formed JSON, so the
\* result is the rendered text.
generate_form_page_sql(form_data, today) ==
    generate_sql_statements(form_data, today)

(***************************************************************************)
(* WorkflowMemory.__init__                                                 *)
(***************************************************************************)
WorkflowMemory ==
    [org_id |-> None, org_name |-> None, process_id |-> None,
     process_name |-> None, is_new_process |-> FALSE,
     suggested_process_id |-> None, event_id |-> None, page_id |-> None,
     page_title |-> None, page_url |-> None, group_id |-> 1, fields |-> <<>>,
     current_state |-> IDLE, pending_field_id |-> None,
     pending_display_type |-> None, pending_validation_type |-> None]

(***************************************************************************)
(* State.                                                                  *)
(*   memory                self.memory of the one assistant                *)
(*   conversation_history  self.conversation_history (message roles)       *)
(*   req                   per caller: the chat() coroutine it has in      *)
(*                         flight (where it is suspended and the locals    *)
(*                         that are still read after the suspension)       *)
(*   out                   what the most recent call to return has         *)
(*                         returned, with the `result` of its step         *)
(*   scn                   how many utterances of the reference scenario   *)
(*                         the conversation since the last reset has       *)
(*                         replayed so far (-1: it is another conversation)*)
(*   overlaps              how many calls were accepted while another call *)
(*                         was in flight                                   *)
(***************************************************************************)
VARIABLES memory, conversation_history, req, out, scn, overlaps

vars == <<memory, conversation_history, req, out, scn, overlaps>>

Clients == {1, 2}

Dates == {"2026-11-06", "2026-11-07"}

NoCall == [tool |-> "none"]

NoReply == [kind |-> "none"]

IdleRequest ==
    [pc |-> "idle", state |-> "none", user_input |-> None, call |-> NoCall,
     tool_calls |-> 0, action_taken |-> "none"]

\* the call of caller r returns `reply`
Return(r, action_taken, tool_calls, reply) ==
    /\ req' = [req EXCEPT ![r] = IdleRequest]
    /\ out' = [action_taken |-> action_taken, tool_calls |-> tool_calls,
               reply |-> reply]

\* _execute_state_logic is suspended in `await self._call_tool(...)`
AwaitingTool(state, user_input, call, tool_calls) ==
    [IdleRequest EXCEPT !.pc = "tool", !.state = state,
                        !.user_input = user_input, !.call = call,
                        !.tool_calls = tool_calls]

\* chat() is suspended in `await self.llm.ainvoke(messages)`
AwaitingLLM(action_taken, tool_calls) ==
    [IdleRequest EXCEPT !.pc = "llm", !.action_taken = action_taken,
                        !.tool_calls = tool_calls]

(***************************************************************************)
(* The reference scenario of the specification.                            *)
(***************************************************************************)
Script ==
    << U_create_a_form, U_Acme_Inc, U_Onboarding, U_yes, U_Task_Details,
       U_email, U_yes, U_label, U_E, U_done >>

\* another caller has a call in flight
Overlapping(r) == \E q \in Clients \ {r} : req[q].pc # "idle"

\* the event loop takes up a call of caller r
Admitted(r) == req[r].pc = "idle" /\ (Overlapping(r) => overlaps < MaxOverlap)

CountOverlap(r) == overlaps' = IF Overlapping(r) THEN overlaps + 1 ELSE overlaps

\* utterance u of caller r enters the state machine
Accept(r, u) ==
    /\ scn' = IF Overlapping(r) THEN -1
              ELSE IF scn >= 0 /\ scn < Len(Script) /\ u = Script[scn + 1]
                   THEN scn + 1
              ELSE IF scn = Len(Script) THEN scn + 1
              ELSE -1
    /\ CountOverlap(r)

\* a tool call of the step returns
Resume(outcome) ==
    /\ scn' = IF outcome = "ok" THEN scn ELSE -1
    /\ overlaps' = overlaps

(***************************************************************************)
(* The utterances offered in each state: the ones that decide its         *)
(* branches, and all of them in COMPLETE.                                  *)
(***************************************************************************)
Inputs(state) ==
    CASE state = IDLE ->
            { U_create_a_form, U_yes, U_hello, U_empty, U_status, U_process_id }
      [] state = ORG_NEEDED ->
            { U_Acme_Inc, U_hello, U_ok, U_yes, U_status, U_process_id }
      [] state = PROCESS_NEEDED ->
            { U_Onboarding, U_Payroll, U_ok, U_status }
      [] state = PROCESS_CREATION_CONFIRM ->
            { U_yes, U_no, U_retry, U_ok, U_hello, U_empty, U_status,
              U_process_id }
      [] state = EVENT_NEEDED ->
            { U_hello, U_ok, U_status, U_process_id }
      [] state = PAGE_TITLE_NEEDED ->
            { U_Task_Details, U_ok, U_empty, U_status, U_process_id }
      [] state = FIELDS_NEEDED ->
            { U_email, U_name, U_done, U_ok, U_status, U_process_id }
      [] state = FIELD_CREATION_CONFIRM ->
            { U_yes, U_no, U_ok, U_hello, U_status, U_process_id }
      [] state = FIELD_DISPLAY_TYPE ->
            { U_label, U_E, U_hello, U_empty, U_status, U_process_id }
      [] state = FIELD_VALIDATION_TYPE ->
            { U_E, U_e_padded, U_empty, U_status }
      [] state = SQL_GENERATION ->
            { U_hello, U_ok, U_done, U_status, U_process_id }
      [] OTHER -> AllUtterances

(***************************************************************************)
(* MCPAIAssistant._call_tool: the text the call returns.  A JSON text is   *)
(* [json |-> object], any other text is [raw |-> text].                    *)
(***************************************************************************)
ToolOutcomes == {"ok", "db_error", "call_failed"}

PureToolOutcomes == {"ok", "call_failed"}

_call_tool(call, outcome, today) ==
    IF outcome = "call_failed"
    THEN [json |-> [success |-> FALSE, error |-> "call failed"]]
    ELSE CASE call.tool = "get_organization_by_name" ->
                [json |-> get_organization_by_name(call.legal_name, outcome = "ok")]
           [] call.tool = "get_process_by_name" ->
                [json |-> get_process_by_name(call.process_name, call.org_id,
                                              outcome = "ok")]
           [] call.tool = "get_max_process_id" ->
                [json |-> get_max_process_id(outcome = "ok")]
           [] call.tool = "get_events_for_process" ->
                [json |-> get_events_for_process(call.process_id, call.org_id,
                                                 outcome = "ok")]
           [] call.tool = "check_field_exists" ->
                [json |-> check_field_exists(call.field_id, outcome = "ok")]
           [] call.tool = "generate_page_url" ->
                [json |-> generate_page_url(call.page_title)]
           [] call.tool = "generate_form_page_sql" ->
                [raw |-> generate_form_page_sql(call.form_data, today)]

json_loads(text) == text.json

\* d.get(key) as an optional value
GetOpt(d, key) == IF key \in DOMAIN d THEN Some(d[key]) ELSE None

\* truthiness of an optional integer
Truthy(o) == ~IsNone(o) /\ Val(o) # 0

(***************************************************************************)
(* MCPAIAssistant.chat: the special commands.                              *)
(***************************************************************************)
\* user_input.lower() and user_input.lower().strip(), evaluated once for
\* the sample utterances
Lowered == [u \in AllUtterances |-> Lower(u)]

LoweredStripped == [u \in AllUtterances |-> Strip(Lower(u))]

IsStatusCommand(u) == InList(Lower(u), StatusCommands)

MentionsProcessId(u) == Contains(Lower(u), W_process) /\ Contains(Lower(u), W_id)

\* the two tests, evaluated once for the sample utterances
StatusUtterances == { u \in AllUtterances : IsStatusCommand(u) }

ProcessIdUtterances == { u \in AllUtterances : MentionsProcessId(u) }

IsProcessIdQuery(u) == u \in ProcessIdUtterances /\ Truthy(memory.process_id)

\* a faulty variant of the entry: the special commands are not filtered out
EntersStateMachine_NoPrefilter(r, u, state) ==
    /\ Admitted(r)
    /\ Len(conversation_history) < MaxHistory
    /\ memory.current_state = state
    /\ u \in Inputs(state)

\* chat() is called with utterance u and gets past the special commands
EntersStateMachine(r, u, state) ==
    /\ Admitted(r)
    /\ Len(conversation_history) < MaxHistory
    /\ memory.current_state = state
    /\ u \in Inputs(state)
    /\ u \notin StatusUtterances
    /\ ~IsProcessIdQuery(u)

StatusQuery(r, u) ==
    /\ Admitted(r)
    /\ u \in Inputs(memory.current_state)
    /\ u \in StatusUtterances
    /\ Return(r, "none", 0, [kind |-> "summary"])
    /\ scn' = -1
    /\ CountOverlap(r)
    /\ UNCHANGED <<memory, conversation_history>>

ProcessIdQuery(r, u) ==
    /\ Admitted(r)
    /\ u \in Inputs(memory.current_state)
    /\ u \notin StatusUtterances
    /\ IsProcessIdQuery(u)
    /\ Return(r, "none", 0, [kind |-> "process_id"])
    /\ scn' = -1
    /\ CountOverlap(r)
    /\ UNCHANGED <<memory, conversation_history>>

(***************************************************************************)
(* MCPAIAssistant._execute_state_logic, one action per state for the code  *)
(* up to the first suspension and one per awaited tool for the code after  *)
(* it.  After an await the code writes self.memory, the memory the         *)
(* assistant holds at that moment.                                         *)
(***************************************************************************)
IdleStep(r, u) ==
    /\ EntersStateMachine(r, u, IDLE)
    /\ IF ContainsAny(Lowered[u], StartPhrases)
       THEN /\ memory' = [memory EXCEPT !.current_state = ORG_NEEDED]
            /\ req' = [req EXCEPT ![r] = AwaitingLLM("workflow_started", 0)]
       ELSE /\ memory' = memory
            /\ req' = [req EXCEPT ![r] = AwaitingLLM("none", 0)]
    /\ Accept(r, u)
    /\ UNCHANGED <<conversation_history, out>>

OrgNeededStep(r, u) ==
    /\ EntersStateMachine(r, u, ORG_NEEDED)
    /\ IF ~InList(Lowered[u], OrgAckWords)
       THEN req' = [req EXCEPT ![r] =
                AwaitingTool(ORG_NEEDED, None,
                    [tool |-> "get_organization_by_name", legal_name |-> u], 1)]
       ELSE req' = [req EXCEPT ![r] = AwaitingLLM("none", 0)]
    /\ Accept(r, u)
    /\ UNCHANGED <<memory, conversation_history, out>>

OrgFound(m, result_data) ==
    [m EXCEPT !.org_id = GetOpt(result_data, "orgId"),
              !.org_name = GetOpt(result_data, "legalName"),
              !.current_state = PROCESS_NEEDED]

\* a faulty variant of the lookup: a failure of the call is not caught and
\* ends chat() in its exception handler
OrgLookupReturn_FailureRaises(r, outcome) ==
    /\ req[r].pc = "tool"
    /\ req[r].call.tool = "get_organization_by_name"
    /\ outcome \in ToolOutcomes
    /\ LET result_data == json_loads(_call_tool(req[r].call, outcome, "none"))
       IN  IF outcome = "call_failed"
           THEN /\ memory' = memory
                /\ Return(r, "none", 1, [kind |-> "error"])
           ELSE IF GetFlag(result_data, "found")
           THEN /\ memory' = OrgFound(memory, result_data)
                /\ req' = [req EXCEPT ![r] = AwaitingLLM("organization_found", 1)]
                /\ out' = out
           ELSE /\ memory' = memory
                /\ req' = [req EXCEPT ![r] =
                                AwaitingLLM("organization_not_found", 1)]
                /\ out' = out
    /\ Resume(outcome)
    /\ UNCHANGED conversation_history

\* a faulty variant of the lookup: on a miss a second tool is called
OrgLookupReturn_SecondCall(r, outcome) ==
    /\ req[r].pc = "tool"
    /\ req[r].call.tool = "get_organization_by_name"
    /\ outcome \in ToolOutcomes
    /\ LET result_data == json_loads(_call_tool(req[r].call, outcome, "none"))
       IN  IF GetFlag(result_data, "found")
           THEN /\ memory' = OrgFound(memory, result_data)
                /\ req' = [req EXCEPT ![r] = AwaitingLLM("organization_found", 1)]
           ELSE /\ memory' = memory
                /\ req' = [req EXCEPT ![r] =
                      AwaitingTool(ORG_NEEDED, req[r].user_input,
                                   [tool |-> "get_max_process_id"], 2)]
    /\ Resume(outcome)
    /\ UNCHANGED <<conversation_history, out>>

OrgLookupReturn(r, outcome) ==
    /\ req[r].pc = "tool"
    /\ req[r].call.tool = "get_organization_by_name"
    /\ outcome \in ToolOutcomes
    /\ LET result_data == json_loads(_call_tool(req[r].call, outcome, "none"))
       IN  IF GetFlag(result_data, "found")
           THEN /\ memory' = OrgFound(memory, result_data)
                /\ req' = [req EXCEPT ![r] = AwaitingLLM("organization_found", 1)]
           ELSE /\ memory' = memory
                /\ req' = [req EXCEPT ![r] =
                                AwaitingLLM("organization_not_found", 1)]
    /\ Resume(outcome)
    /\ UNCHANGED <<conversation_history, out>>

ProcessNeededStep(r, u) ==
    /\ EntersStateMachine(r, u, PROCESS_NEEDED)
    /\ IF ~InList(Lowered[u], ContinueWords)
       THEN req' = [req EXCEPT ![r] =
                AwaitingTool(PROCESS_NEEDED, Some(u),
                    [tool |-> "get_process_by_name", process_name |-> u,
                     org_id |-> memory.org_id], 1)]
       ELSE req' = [req EXCEPT ![r] = AwaitingLLM("ask_for_process_name", 0)]
    /\ Accept(r, u)
    /\ UNCHANGED <<memory, conversation_history, out>>

\* ProcessFound without line 231: the found process is stored but the
\* workflow does not move on
ProcessFound_StaysInProcessNeeded(m, result_data) ==
    [m EXCEPT !.process_id = Some(result_data.processId),
              !.process_name = GetOpt(result_data, "processName"),
              !.is_new_process = FALSE]

ProcessFound(m, result_data) ==
    [m EXCEPT !.process_id = Some(result_data.processId),
              !.process_name = GetOpt(result_data, "processName"),
              !.is_new_process = FALSE,
              !.current_state = EVENT_NEEDED]

ProcessLookupReturn(r, outcome) ==
    /\ req[r].pc = "tool"
    /\ req[r].call.tool = "get_process_by_name"
    /\ outcome \in ToolOutcomes
    /\ LET result_data == json_loads(_call_tool(req[r].call, outcome, "none"))
       IN  IF GetFlag(result_data, "found")
           THEN /\ memory' = ProcessFound(memory, result_data)
                /\ req' = [req EXCEPT ![r] = AwaitingLLM("process_found", 1)]
           ELSE /\ memory' = memory
                /\ req' = [req EXCEPT ![r] =
                      AwaitingTool(PROCESS_NEEDED, req[r].user_input,
                                   [tool |-> "get_max_process_id"], 2)]
    /\ Resume(outcome)
    /\ UNCHANGED <<conversation_history, out>>

\* the id suggested for a new process, from the answer of get_max_process_id
SuggestedId(max_id_data) ==
    IF GetFlag(max_id_data, "success")
    THEN Get(max_id_data, "suggested_next_id", 1)
    ELSE 1

MaxProcessIdReturn(r, outcome) ==
    /\ req[r].pc = "tool"
    /\ req[r].call.tool = "get_max_process_id"
    /\ outcome \in ToolOutcomes
    /\ LET max_id_data == json_loads(_call_tool(req[r].call, outcome, "none"))
           suggested_id == SuggestedId(max_id_data)
       IN  memory' = [memory EXCEPT
                          !.process_name = req[r].user_input,
                          !.suggested_process_id = Some(suggested_id),
                          !.current_state = PROCESS_CREATION_CONFIRM]
    /\ req' = [req EXCEPT ![r] = AwaitingLLM("process_not_found_ask_create", 2)]
    /\ Resume(outcome)
    /\ UNCHANGED <<conversation_history, out>>

\* a faulty variant of the confirmation: the page id is not aliased
NewProcessConfirmed_PageNotAliased(m) ==
    [m EXCEPT !.is_new_process = TRUE,
              !.process_id = m.suggested_process_id,
              !.event_id = m.suggested_process_id,
              !.current_state = PAGE_TITLE_NEEDED]

\* NewProcessConfirmed with line 275 naming EVENT_NEEDED as the next state
NewProcessConfirmed_ThroughEventNeeded(m) ==
    [m EXCEPT !.is_new_process = TRUE,
              !.process_id = m.suggested_process_id,
              !.event_id = m.suggested_process_id,
              !.page_id = m.suggested_process_id,
              !.current_state = EVENT_NEEDED]

NewProcessConfirmed(m) ==
    [m EXCEPT !.is_new_process = TRUE,
              !.process_id = m.suggested_process_id,
              !.event_id = m.suggested_process_id,
              !.page_id = m.suggested_process_id,
              !.current_state = PAGE_TITLE_NEEDED]

ProcessNameRetry(m) ==
    [m EXCEPT !.process_name = None,
              !.suggested_process_id = None,
              !.current_state = PROCESS_NEEDED]

ProcessCreationConfirmStep(r, u) ==
    /\ EntersStateMachine(r, u, PROCESS_CREATION_CONFIRM)
    /\ LET user_lower == LoweredStripped[u]
       IN  IF ContainsAny(user_lower, ProcessAffirmWords)
           THEN /\ memory' = NewProcessConfirmed(memory)
                /\ req' = [req EXCEPT ![r] = AwaitingLLM("new_process_confirmed", 0)]
           ELSE IF ContainsAny(user_lower, ProcessNegativeWords)
           THEN /\ memory' = ProcessNameRetry(memory)
                /\ req' = [req EXCEPT ![r] = AwaitingLLM("process_name_retry", 0)]
           ELSE /\ memory' = memory
                /\ req' = [req EXCEPT ![r] =
                                AwaitingLLM("unclear_process_response", 0)]
    /\ Accept(r, u)
    /\ UNCHANGED <<conversation_history, out>>

EventNeededStep(r, u) ==
    /\ EntersStateMachine(r, u, EVENT_NEEDED)
    /\ IF ~memory.is_new_process
       THEN /\ memory' = memory
            /\ req' = [req EXCEPT ![r] =
                  AwaitingTool(EVENT_NEEDED, None,
                      [tool |-> "get_events_for_process",
                       process_id |-> memory.process_id,
                       org_id |-> memory.org_id], 1)]
       ELSE /\ memory' = [memory EXCEPT !.current_state = PAGE_TITLE_NEEDED]
            /\ req' = [req EXCEPT ![r] = AwaitingLLM("event_id_retrieved", 0)]
    /\ Accept(r, u)
    /\ UNCHANGED <<conversation_history, out>>

\* the memory after the event lookup has returned
\* EventRetrieved without line 313: the page id is not stored
EventRetrieved_PageNotStored(m, result_data) ==
    IF GetFlag(result_data, "success")
    THEN [m EXCEPT !.event_id = Get(result_data, "suggestedNextEventId", None),
                   !.current_state = PAGE_TITLE_NEEDED]
    ELSE [m EXCEPT !.current_state = PAGE_TITLE_NEEDED]

EventRetrieved(m, result_data) ==
    IF GetFlag(result_data, "success")
    THEN [m EXCEPT !.event_id = Get(result_data, "suggestedNextEventId", None),
                   !.page_id = Get(result_data, "suggestedNextEventId", None),
                   !.current_state = PAGE_TITLE_NEEDED]
    ELSE [m EXCEPT !.current_state = PAGE_TITLE_NEEDED]

EventLookupReturn(r, outcome) ==
    /\ req[r].pc = "tool"
    /\ req[r].call.tool = "get_events_for_process"
    /\ outcome \in ToolOutcomes
    /\ LET result_data == json_loads(_call_tool(req[r].call, outcome, "none"))
       IN  memory' = EventRetrieved(memory, result_data)
    /\ req' = [req EXCEPT ![r] = AwaitingLLM("event_id_retrieved", 1)]
    /\ Resume(outcome)
    /\ UNCHANGED <<conversation_history, out>>

PageTitleStep(r, u) ==
    /\ EntersStateMachine(r, u, PAGE_TITLE_NEEDED)
    /\ IF ~InList(Lowered[u], ContinueWords)
       THEN req' = [req EXCEPT ![r] =
                AwaitingTool(PAGE_TITLE_NEEDED, None,
                    [tool |-> "generate_page_url", page_title |-> u], 1)]
       ELSE req' = [req EXCEPT ![r] = AwaitingLLM("ask_for_page_title", 0)]
    /\ Accept(r, u)
    /\ UNCHANGED <<memory, conversation_history, out>>

PageTitleSet(m, result_data) ==
    [m EXCEPT !.page_title = GetOpt(result_data, "pageTitle"),
              !.page_url = GetOpt(result_data, "pageURL"),
              !.current_state = FIELDS_NEEDED]

\* a faulty variant of the return: the title is never stored
PageUrlReturn_NeverStored(r, outcome) ==
    /\ req[r].pc = "tool"
    /\ req[r].call.tool = "generate_page_url"
    /\ outcome \in PureToolOutcomes
    /\ memory' = memory
    /\ req' = [req EXCEPT ![r] = AwaitingLLM("none", 1)]
    /\ Resume(outcome)
    /\ UNCHANGED <<conversation_history, out>>

PageUrlReturn(r, outcome) ==
    /\ req[r].pc = "tool"
    /\ req[r].call.tool = "generate_page_url"
    /\ outcome \in PureToolOutcomes
    /\ LET result_data == json_loads(_call_tool(req[r].call, outcome, "none"))
       IN  IF GetFlag(result_data, "success")
           THEN /\ memory' = PageTitleSet(memory, result_data)
                /\ req' = [req EXCEPT ![r] = AwaitingLLM("page_title_set", 1)]
           ELSE /\ memory' = memory
                /\ req' = [req EXCEPT ![r] = AwaitingLLM("none", 1)]
    /\ Resume(outcome)
    /\ UNCHANGED <<conversation_history, out>>

\* FieldsNeededStep without the test of line 345: a done word always advances
FieldsNeededStep_DoneAlwaysAdvances(r, u) ==
    /\ EntersStateMachine(r, u, FIELDS_NEEDED)
    /\ IF InList(Lowered[u], DoneWords)
       THEN /\ memory' = [memory EXCEPT !.current_state = SQL_GENERATION]
            /\ req' = [req EXCEPT ![r] = AwaitingLLM("fields_complete", 0)]
       ELSE IF InList(Lowered[u], ContinueWords)
       THEN /\ memory' = memory
            /\ req' = [req EXCEPT ![r] = AwaitingLLM("ask_for_fields", 0)]
       ELSE /\ Len(memory.fields) < MaxFields
            /\ memory' = memory
            /\ req' = [req EXCEPT ![r] =
                  AwaitingTool(FIELDS_NEEDED, Some(u),
                      [tool |-> "check_field_exists", field_id |-> u], 1)]
    /\ Accept(r, u)
    /\ UNCHANGED <<conversation_history, out>>

FieldsNeededStep(r, u) ==
    /\ EntersStateMachine(r, u, FIELDS_NEEDED)
    /\ IF InList(Lowered[u], DoneWords)
       THEN IF Len(memory.fields) = 0
            THEN /\ memory' = memory
                 /\ req' = [req EXCEPT ![r] = AwaitingLLM("no_fields_added", 0)]
            ELSE /\ memory' = [memory EXCEPT !.current_state = SQL_GENERATION]
                 /\ req' = [req EXCEPT ![r] = AwaitingLLM("fields_complete", 0)]
       ELSE IF InList(Lowered[u], ContinueWords)
       THEN /\ memory' = memory
            /\ req' = [req EXCEPT ![r] = AwaitingLLM("ask_for_fields", 0)]
       ELSE /\ Len(memory.fields) < MaxFields
            /\ memory' = memory
            /\ req' = [req EXCEPT ![r] =
                  AwaitingTool(FIELDS_NEEDED, Some(u),
                      [tool |-> "check_field_exists", field_id |-> u], 1)]
    /\ Accept(r, u)
    /\ UNCHANGED <<conversation_history, out>>

\* ExistingField with the flag of line 367 inverted
ExistingField_MarkedNew(result_data) ==
    [field_id |-> GetOpt(result_data, "fieldId"),
     existing |-> FALSE,
     display_type |-> GetOpt(result_data, "displayType"),
     validation_type |-> GetOpt(result_data, "validationType")]

ExistingField(result_data) ==
    [field_id |-> GetOpt(result_data, "fieldId"),
     existing |-> TRUE,
     display_type |-> GetOpt(result_data, "displayType"),
     validation_type |-> GetOpt(result_data, "validationType")]

FieldLookupReturn(r, outcome) ==
    /\ req[r].pc = "tool"
    /\ req[r].call.tool = "check_field_exists"
    /\ outcome \in ToolOutcomes
    /\ LET result_data == json_loads(_call_tool(req[r].call, outcome, "none"))
       IN  IF GetFlag(result_data, "found")
           THEN /\ memory' = [memory EXCEPT
                      !.fields = Append(@, ExistingField(result_data))]
                /\ req' = [req EXCEPT ![r] = AwaitingLLM("field_added_existing", 1)]
           ELSE /\ memory' = [memory EXCEPT
                      !.pending_field_id = req[r].user_input,
                      !.current_state = FIELD_CREATION_CONFIRM]
                /\ req' = [req EXCEPT ![r] =
                                AwaitingLLM("field_not_found_ask_create", 1)]
    /\ Resume(outcome)
    /\ UNCHANGED <<conversation_history, out>>

\* FieldCreationConfirmStep without line 400: a cancelled id stays pending
FieldCreationConfirmStep_CancelKeepsPending(r, u) ==
    /\ EntersStateMachine(r, u, FIELD_CREATION_CONFIRM)
    /\ LET user_lower == LoweredStripped[u]
       IN  IF ContainsAny(user_lower, FieldAffirmWords)
           THEN /\ memory' = [memory EXCEPT !.current_state = FIELD_DISPLAY_TYPE]
                /\ req' = [req EXCEPT ![r] = AwaitingLLM("new_field_confirmed", 0)]
           ELSE IF ContainsAny(user_lower, FieldNegativeWords)
           THEN /\ memory' = [memory EXCEPT !.current_state = FIELDS_NEEDED]
                /\ req' = [req EXCEPT ![r] =
                                AwaitingLLM("field_creation_cancelled", 0)]
           ELSE /\ memory' = memory
                /\ req' = [req EXCEPT ![r] =
                                AwaitingLLM("unclear_field_response", 0)]
    /\ Accept(r, u)
    /\ UNCHANGED <<conversation_history, out>>

FieldCreationConfirmStep(r, u) ==
    /\ EntersStateMachine(r, u, FIELD_CREATION_CONFIRM)
    /\ LET user_lower == LoweredStripped[u]
       IN  IF ContainsAny(user_lower, FieldAffirmWords)
           THEN /\ memory' = [memory EXCEPT !.current_state = FIELD_DISPLAY_TYPE]
                /\ req' = [req EXCEPT ![r] = AwaitingLLM("new_field_confirmed", 0)]
           ELSE IF ContainsAny(user_lower, FieldNegativeWords)
           THEN /\ memory' = [memory EXCEPT !.pending_field_id = None,
                                            !.current_state = FIELDS_NEEDED]
                /\ req' = [req EXCEPT ![r] =
                                AwaitingLLM("field_creation_cancelled", 0)]
           ELSE /\ memory' = memory
                /\ req' = [req EXCEPT ![r] =
                                AwaitingLLM("unclear_field_response", 0)]
    /\ Accept(r, u)
    /\ UNCHANGED <<conversation_history, out>>

FieldDisplayTypeStep(r, u) ==
    /\ EntersStateMachine(r, u, FIELD_DISPLAY_TYPE)
    /\ LET user_lower == LoweredStripped[u]
       IN  IF InList(user_lower, valid_types)
           THEN /\ memory' = [memory EXCEPT
                      !.pending_display_type = Some(user_lower),
                      !.current_state = FIELD_VALIDATION_TYPE]
                /\ req' = [req EXCEPT ![r] = AwaitingLLM("display_type_set", 0)]
           ELSE /\ memory' = memory
                /\ req' = [req EXCEPT ![r] = AwaitingLLM("invalid_display_type", 0)]
    /\ Accept(r, u)
    /\ UNCHANGED <<conversation_history, out>>

\* NewFieldAdded with the list assigned instead of appended to at line 436
NewFieldAdded_ReplacesList(m, user_input) ==
    LET validation_type == Upper(Strip(user_input))
    IN  [m EXCEPT !.fields = << [field_id |-> m.pending_field_id,
                                 existing |-> FALSE,
                                 display_type |-> m.pending_display_type,
                                 validation_type |-> Some(validation_type)] >>,
                  !.pending_field_id = None,
                  !.pending_display_type = None,
                  !.pending_validation_type = None,
                  !.current_state = FIELDS_NEEDED]

\* NewFieldAdded without lines 447-449: the pending slots are left filled
NewFieldAdded_PendingKept(m, user_input) ==
    LET validation_type == Upper(Strip(user_input))
    IN  [m EXCEPT !.fields = Append(@, [field_id |-> m.pending_field_id,
                                        existing |-> FALSE,
                                        display_type |-> m.pending_display_type,
                                        validation_type |-> Some(validation_type)]),
                  !.current_state = FIELDS_NEEDED]

\* the memory after the FIELD_VALIDATION_TYPE branch has run on user_input
NewFieldAdded(m, user_input) ==
    LET validation_type == Upper(Strip(user_input))
    IN  [m EXCEPT !.fields = Append(@, [field_id |-> m.pending_field_id,
                                        existing |-> FALSE,
                                        display_type |-> m.pending_display_type,
                                        validation_type |-> Some(validation_type)]),
                  !.pending_field_id = None,
                  !.pending_display_type = None,
                  !.pending_validation_type = None,
                  !.current_state = FIELDS_NEEDED]

FieldValidationTypeStep(r, u) ==
    /\ EntersStateMachine(r, u, FIELD_VALIDATION_TYPE)
    /\ memory' = NewFieldAdded(memory, u)
    /\ req' = [req EXCEPT ![r] = AwaitingLLM("field_added_new", 0)]
    /\ Accept(r, u)
    /\ UNCHANGED <<conversation_history, out>>

\* a faulty variant of the aggregate: every field is listed as new
FormData_AllFieldsNew(m) ==
    [org_id |-> m.org_id,
     org_name |-> m.org_name,
     process_id |-> m.process_id,
     process_name |-> m.process_name,
     is_new_process |-> m.is_new_process,
     event_id |-> m.event_id,
     page_id |-> m.page_id,
     page_title |-> m.page_title,
     page_url |-> m.page_url,
     event_name |-> m.page_title,
     group_id |-> m.group_id,
     is_new_group |-> FALSE,
     field_groups |-> <<>>,
     new_fields |-> m.fields,
     page_values |->
        [i \in 1..Len(m.fields) |->
            [field_id |-> m.fields[i].field_id,
             group_id |-> m.group_id,
             field_group_id |-> m.group_id,
             display_label |->
                Some(Title(ReplaceChar(Val(m.fields[i].field_id), "_", <<" ">>))),
             display_type |-> m.fields[i].display_type,
             validation_type |-> m.fields[i].validation_type]]]

\* the form-data aggregate the SQL_GENERATION branch builds from memory
FormData(m) ==
    [org_id |-> m.org_id,
     org_name |-> m.org_name,
     process_id |-> m.process_id,
     process_name |-> m.process_name,
     is_new_process |-> m.is_new_process,
     event_id |-> m.event_id,
     page_id |-> m.page_id,
     page_title |-> m.page_title,
     page_url |-> m.page_url,
     event_name |-> m.page_title,
     group_id |-> m.group_id,
     is_new_group |-> FALSE,
     field_groups |-> <<>>,
     new_fields |-> SelectSeq(m.fields, LAMBDA f : ~f.existing),
     page_values |->
        [i \in 1..Len(m.fields) |->
            [field_id |-> m.fields[i].field_id,
             group_id |-> m.group_id,
             field_group_id |-> m.group_id,
             display_label |->
                Some(Title(ReplaceChar(Val(m.fields[i].field_id), "_", <<" ">>))),
             display_type |-> m.fields[i].display_type,
             validation_type |-> m.fields[i].validation_type]]]

SqlGenerationStep(r, u) ==
    /\ EntersStateMachine(r, u, SQL_GENERATION)
    /\ IF \E i \in 1..Len(memory.fields) : IsNone(memory.fields[i].field_id)
       THEN \* field["field_id"].replace raises; chat() returns "Error: ..."
            Return(r, "none", 0, [kind |-> "error"])
       ELSE /\ req' = [req EXCEPT ![r] =
                  AwaitingTool(SQL_GENERATION, None,
                      [tool |-> "generate_form_page_sql",
                       form_data |-> FormData(memory)], 1)]
            /\ out' = out
    /\ Accept(r, u)
    /\ UNCHANGED <<memory, conversation_history>>

\* the state after the generation tool has returned tool_result
AfterGeneration(state, tool_result) == COMPLETE

\* a faulty variant of the return: the text goes through the language model
SqlReturn_ThroughLLM(r, outcome, today) ==
    /\ req[r].pc = "tool"
    /\ req[r].call.tool = "generate_form_page_sql"
    /\ outcome \in PureToolOutcomes
    /\ today \in Dates
    /\ memory' = [memory EXCEPT !.current_state = COMPLETE]
    /\ req' = [req EXCEPT ![r] = AwaitingLLM("sql_generated", 1)]
    /\ Resume(outcome)
    /\ UNCHANGED <<conversation_history, out>>

SqlReturn(r, outcome, today) ==
    /\ req[r].pc = "tool"
    /\ req[r].call.tool = "generate_form_page_sql"
    /\ outcome \in PureToolOutcomes
    /\ today \in Dates
    /\ LET tool_result == _call_tool(req[r].call, outcome, today)
       IN  /\ memory' = [memory EXCEPT
                  !.current_state = AfterGeneration(@, tool_result)]
           /\ Return(r, "sql_generated", 1,
                     [kind |-> "tool_result", tool_result |-> tool_result])
    /\ Resume(outcome)
    /\ UNCHANGED conversation_history

\* a faulty variant of the COMPLETE step: it falls through to the IDLE branch
CompleteStep_FallsThroughToIdle(r, u) ==
    /\ EntersStateMachine(r, u, COMPLETE)
    /\ IF ContainsAny(Lowered[u], StartPhrases)
       THEN /\ memory' = [memory EXCEPT !.current_state = ORG_NEEDED]
            /\ req' = [req EXCEPT ![r] = AwaitingLLM("workflow_started", 0)]
       ELSE /\ memory' = memory
            /\ req' = [req EXCEPT ![r] = AwaitingLLM("none", 0)]
    /\ Accept(r, u)
    /\ UNCHANGED <<conversation_history, out>>

\* no branch of _execute_state_logic matches COMPLETE
CompleteStep(r, u) ==
    /\ EntersStateMachine(r, u, COMPLETE)
    /\ req' = [req EXCEPT ![r] = AwaitingLLM("none", 0)]
    /\ Accept(r, u)
    /\ UNCHANGED <<memory, conversation_history, out>>

(***************************************************************************)
(* MCPAIAssistant.chat after the state machine: the text-generation call   *)
(* and the transcript.                                                     *)
(***************************************************************************)
\* LLMReturn with the step undone when text generation fails
LLMReturn_FailureRollsBack(r, ok) ==
    /\ req[r].pc = "llm"
    /\ IF ok
       THEN /\ conversation_history' = conversation_history \o <<"human", "ai">>
            /\ Return(r, req[r].action_taken, req[r].tool_calls, [kind |-> "llm"])
            /\ memory' = memory
       ELSE /\ conversation_history' = conversation_history
            /\ Return(r, req[r].action_taken, req[r].tool_calls,
                      [kind |-> "error"])
            /\ memory' = WorkflowMemory
    /\ UNCHANGED <<scn, overlaps>>

LLMReturn(r, ok) ==
    /\ req[r].pc = "llm"
    /\ IF ok
       THEN /\ conversation_history' = conversation_history \o <<"human", "ai">>
            /\ Return(r, req[r].action_taken, req[r].tool_calls, [kind |-> "llm"])
       ELSE /\ conversation_history' = conversation_history
            /\ Return(r, req[r].action_taken, req[r].tool_calls,
                      [kind |-> "error"])
    /\ UNCHANGED <<memory, scn, overlaps>>

\* a faulty variant of reset: the collected fields are kept (a merge, not a
\* replacement)
reset_KeepsFields(r) ==
    /\ Admitted(r)
    /\ memory' = [WorkflowMemory EXCEPT !.fields = memory.fields]
    /\ conversation_history' = <<>>
    /\ Return(r, "none", 0, [kind |-> "reset"])
    /\ scn' = IF Overlapping(r) THEN -1 ELSE 0
    /\ CountOverlap(r)

(***************************************************************************)
(* MCPAIAssistant.reset, called by the /reset endpoint.                    *)
(***************************************************************************)
reset(r) ==
    /\ Admitted(r)
    /\ memory' = WorkflowMemory
    /\ conversation_history' = <<>>
    /\ Return(r, "none", 0, [kind |-> "reset"])
    /\ scn' = IF Overlapping(r) THEN -1 ELSE 0
    /\ CountOverlap(r)

(***************************************************************************)
(* Specifications.  Spec: one caller that awaits each chat() before its    *)
(* next call (the loop of main(), or one HTTP client).  SpecHTTP: the      *)
(* /chat and /reset endpoints serving several callers on one event loop,   *)
(* all on the one global assistant.                                        *)
(***************************************************************************)
Init ==
    /\ memory = WorkflowMemory
    /\ conversation_history = <<>>
    /\ req = [r \in Clients |-> IdleRequest]
    /\ out = [action_taken |-> "none", tool_calls |-> 0, reply |-> NoReply]
    /\ scn = 0
    /\ overlaps = 0

\* MCPAIAssistant.chat(user_input) up to its first suspension (or its return)
ChatStep(r) ==
    \/ \E u \in Inputs(memory.current_state) : StatusQuery(r, u)
    \/ \E u \in Inputs(memory.current_state) : ProcessIdQuery(r, u)
    \/ \E u \in Inputs(memory.current_state) : IdleStep(r, u)
    \/ \E u \in Inputs(memory.current_state) : OrgNeededStep(r, u)
    \/ \E u \in Inputs(memory.current_state) : ProcessNeededStep(r, u)
    \/ \E u \in Inputs(memory.current_state) : ProcessCreationConfirmStep(r, u)
    \/ \E u \in Inputs(memory.current_state) : EventNeededStep(r, u)
    \/ \E u \in Inputs(memory.current_state) : PageTitleStep(r, u)
    \/ \E u \in Inputs(memory.current_state) : FieldsNeededStep(r, u)
    \/ \E u \in Inputs(memory.current_state) : FieldCreationConfirmStep(r, u)
    \/ \E u \in Inputs(memory.current_state) : FieldDisplayTypeStep(r, u)
    \/ \E u \in Inputs(memory.current_state) : FieldValidationTypeStep(r, u)
    \/ \E u \in Inputs(memory.current_state) : SqlGenerationStep(r, u)
    \/ \E u \in Inputs(memory.current_state) : CompleteStep(r, u)

\* an awaited tool call of caller r returns and the step runs on
ToolReturn(r) ==
    \/ \E outcome \in ToolOutcomes : OrgLookupReturn(r, outcome)
    \/ \E outcome \in ToolOutcomes : ProcessLookupReturn(r, outcome)
    \/ \E outcome \in ToolOutcomes : MaxProcessIdReturn(r, outcome)
    \/ \E outcome \in ToolOutcomes : EventLookupReturn(r, outcome)
    \/ \E outcome \in PureToolOutcomes : PageUrlReturn(r, outcome)
    \/ \E outcome \in ToolOutcomes : FieldLookupReturn(r, outcome)
    \/ \E outcome \in PureToolOutcomes, today \in Dates :
            SqlReturn(r, outcome, today)

Serve(r) ==
    \/ ChatStep(r)
    \/ ToolReturn(r)
    \/ \E ok \in BOOLEAN : LLMReturn(r, ok)
    \/ reset(r)

Next == Serve(1)

Spec == Init /\ [][Next]_vars

NextHTTP == \E r \in Clients : Serve(r)

SpecHTTP == Init /\ [][NextHTTP]_vars

(***************************************************************************)
(* SpecRender: the generation tool of the server called on its own, as any *)
(* client of the server may call it, with an aggregate of the caller's     *)
(* making.  The aggregates have every top-level key; their fields and page *)
(* values are drawn from samples with quotes, nulls, missing keys, and     *)
(* keys that base_data also has.                                           *)
(***************************************************************************)
T_quoted == <<"a", "'", "b">>

T_X == <<"X">>

SampleNewFields ==
    { [field_id |-> Some(U_email), existing |-> FALSE,
       display_type |-> Some(U_label), validation_type |-> Some(U_E)],
      [field_id |-> Some(T_quoted), existing |-> FALSE,
       display_type |-> None] }

SamplePageValues ==
    { [field_id |-> Some(U_email), group_id |-> 1, field_group_id |-> 1,
       display_label |-> Some(Title(U_email)), display_type |-> Some(U_label),
       validation_type |-> Some(U_E)],
      [field_id |-> Some(T_quoted), display_label |-> Some(T_quoted),
       display_type |-> None, validation_type |-> Some(<<>>)],
      [field_id |-> Some(U_name), display_type |-> Some(T_quoted),
       rec_seq |-> 9, page_id |-> Some(5), org_id |-> Some(T_X),
       today |-> "1999-01-01"] }

\* the sequences over S of length at most n
SeqsUpTo(S, n) == UNION { [1..k -> S] : k \in 0..n }

Aggregates ==
    { [org_id |-> Some(IF quoted THEN T_quoted ELSE <<"O", "1">>),
       org_name |-> Some(U_Acme_Inc),
       process_id |-> IF ids THEN Some(7) ELSE None,
       process_name |-> Some(IF quoted THEN T_quoted ELSE U_Onboarding),
       is_new_process |-> new_process,
       event_id |-> IF ids THEN Some(8) ELSE None,
       page_id |-> IF ids THEN Some(9) ELSE None,
       page_title |-> Some(IF quoted THEN T_quoted ELSE U_Task_Details),
       page_url |-> Some(IF quoted THEN T_quoted ELSE <<"a">>),
       event_name |-> Some(IF quoted THEN T_quoted ELSE U_Task_Details),
       group_id |-> 3,
       is_new_group |-> new_group,
       field_groups |-> field_groups,
       new_fields |-> new_fields,
       page_values |-> page_values] :
      quoted \in BOOLEAN, ids \in BOOLEAN, new_process \in BOOLEAN,
      new_group \in BOOLEAN, field_groups \in {<<>>, <<5>>, <<5, 6>>},
      new_fields \in SeqsUpTo(SampleNewFields, MaxFields),
      page_values \in SeqsUpTo(SamplePageValues, MaxFields) }

\* a caller has sent the aggregate to the tool and waits for the text
DirectCall(form_data) ==
    [IdleRequest EXCEPT !.pc = "direct",
                        !.call = [tool |-> "generate_form_page_sql",
                                  form_data |-> form_data],
                        !.tool_calls = 1]

InitRender ==
    /\ memory = WorkflowMemory
    /\ conversation_history = <<>>
    /\ \E form_data \in Aggregates :
          req = [r \in Clients |->
                    IF r = 1 THEN DirectCall(form_data) ELSE IdleRequest]
    /\ out = [action_taken |-> "none", tool_calls |-> 0, reply |-> NoReply]
    /\ scn = -1
    /\ overlaps = 0

\* the tool renders the aggregate on the day `today` and answers; the caller
\* may have the same aggregate rendered again, on the same day or another
Render(r, today) ==
    /\ req[r].pc = "direct"
    /\ out' = [action_taken |-> "none", tool_calls |-> 1,
               reply |-> [kind |-> "tool_result",
                          tool_result |->
                             [raw |-> generate_form_page_sql(
                                          req[r].call.form_data, today)]]]
    /\ UNCHANGED <<memory, conversation_history, req, scn, overlaps>>

NextRender == \E today \in Dates : Render(1, today)

SpecRender == InitRender /\ [][NextRender]_vars

(***************************************************************************)
(* Properties.                                                             *)
(***************************************************************************)
\* no call is suspended in a tool call: every step accepted so far has run
\* its state logic to the end
NoToolPending == \A r \in Clients : req[r].pc # "tool"

\* the states the reference scenario is said to pass through, one per
\* utterance
ScenarioStates ==
    << ORG_NEEDED, PROCESS_NEEDED, PROCESS_CREATION_CONFIRM, PAGE_TITLE_NEEDED,
       FIELDS_NEEDED, FIELD_CREATION_CONFIRM, FIELD_DISPLAY_TYPE,
       FIELD_VALIDATION_TYPE, FIELDS_NEEDED, SQL_GENERATION >>

ScenarioField ==
    [field_id |-> Some(U_email), existing |-> FALSE,
     display_type |-> Some(U_label), validation_type |-> Some(U_E)]

\* the rendered text holds an orgProcesses INSERT with this processId and
\* an adminFields INSERT for this field
RendersProcessAndField(text, id, field_id) ==
    /\ "raw" \in DOMAIN text
    /\ \E i \in 1..Len(text.raw) :
          /\ text.raw[i].section = "orgProcesses"
          /\ text.raw[i].processId = IntToStr(id)
    /\ \E i \in 1..Len(text.raw) :
          /\ text.raw[i].section = "adminFields"
          /\ text.raw[i].fieldId = Quoted(field_id)

\* C1: the reference scenario.  While the conversation since the last reset
\* is the scenario's utterance sequence 'create a form', 'Acme Inc',
\* 'Onboarding', 'yes', 'Task Details', 'email', 'yes', 'label', 'E', 'done'
\* with every tool answering normally, the state after the k-th utterance is
\* the k-th state of the scenario; from the confirmation on process_id,
\* event_id and page_id are all 200; from the validation type on the field
\* list is the single new field email/label/E; and once generation has run
\* the state is COMPLETE and the returned SQL holds an orgProcesses INSERT
\* with processId 200 and an adminFields INSERT for 'email'.
C1_ReferenceScenario ==
    (scn >= 1 /\ NoToolPending) =>
        /\ scn <= Len(Script) => memory.current_state = ScenarioStates[scn]
        /\ scn >= 4 =>
              /\ memory.process_id = Some(200)
              /\ memory.event_id = Some(200)
              /\ memory.page_id = Some(200)
        /\ scn >= 9 => memory.fields = <<ScenarioField>>
        /\ scn > Len(Script) =>
              /\ memory.current_state = COMPLETE
              /\ out.reply.kind = "tool_result"
              /\ RendersProcessAndField(out.reply.tool_result, 200, U_email)

\* the answer of the max-process-id tool that caller r is waiting for
MaxIdAnswer(r, outcome) == json_loads(_call_tool(req[r].call, outcome, "none"))

\* C2: in PROCESS_NEEDED, when the process lookup has answered not-found and
\* the max-process-id tool answers success with suggestedNextProcessId = N,
\* the step stores suggested_process_id = N and the typed process name, and
\* moves to PROCESS_CREATION_CONFIRM.
C2_SuggestedIdStored ==
    [][\A r \in Clients, outcome \in ToolOutcomes :
          (/\ MaxProcessIdReturn(r, outcome)
           /\ GetFlag(MaxIdAnswer(r, outcome), "success"))
          => /\ memory'.suggested_process_id =
                    Some(MaxIdAnswer(r, outcome).suggestedNextProcessId)
             /\ memory'.process_name = req[r].user_input
             /\ memory'.current_state = PROCESS_CREATION_CONFIRM]_vars

\* the three ids of m are the suggested id
Aliased(m) ==
    /\ ~IsNone(m.suggested_process_id)
    /\ m.process_id = m.suggested_process_id
    /\ m.event_id = m.suggested_process_id
    /\ m.page_id = m.suggested_process_id

\* C3: the alias invariant.  A confirming reply (yes, ok) in
\* PROCESS_CREATION_CONFIRM sets is_new_process, makes process_id, event_id
\* and page_id equal to suggested_process_id and moves to PAGE_TITLE_NEEDED;
\* and after every step, is_new_process still implies that the three ids
\* equal suggested_process_id.
C3_AliasInvariant ==
    [][/\ \A r \in Clients, u \in {U_yes, U_ok} :
              ProcessCreationConfirmStep(r, u)
              => /\ memory'.is_new_process
                 /\ Aliased(memory')
                 /\ memory'.current_state = PAGE_TITLE_NEEDED
       /\ memory'.is_new_process => Aliased(memory')]_vars

\* C3 witness: a new process was confirmed and the workflow has run on to
\* the end with its ids
C3_Witness ==
    /\ memory.is_new_process
    /\ memory.current_state = COMPLETE
    /\ ~IsNone(memory.page_id)

\* the five values the form-data aggregate needs
ProjectionReady(m) ==
    /\ ~IsNone(m.process_id)
    /\ ~IsNone(m.event_id)
    /\ ~IsNone(m.page_id)
    /\ ~IsNone(m.page_title)
    /\ ~IsNone(m.page_url)

\* C4: SQL_GENERATION is never reached, and the form-data aggregate is never
\* projected, with process_id, event_id, page_id, page_title or page_url
\* still null.
C4_ProjectionReady ==
    /\ memory.current_state = SQL_GENERATION => ProjectionReady(memory)
    /\ \A r \in Clients :
          req[r].call.tool = "generate_form_page_sql"
          => ProjectionReady(req[r].call.form_data)

\* the step leaves current_state as it was
Stays == memory'.current_state = memory.current_state

\* C5: no accidental advance.  In every state other than EVENT_NEEDED and
\* SQL_GENERATION, an utterance that matches none of the state's branch
\* conditions (IDLE: no start keyword; ORG_NEEDED: a bare acknowledgement
\* word; PROCESS_NEEDED, PAGE_TITLE_NEEDED, FIELDS_NEEDED: a bare continue
\* word; the two confirm states: neither affirmative nor negative;
\* FIELD_DISPLAY_TYPE: not one of the six types; FIELD_VALIDATION_TYPE:
\* empty text; COMPLETE: anything) leaves current_state unchanged.
C5_NoAccidentalAdvance ==
    [][\A r \in Clients, u \in AllUtterances :
          /\ (IdleStep(r, u) /\ ~ContainsAny(Lowered[u], StartPhrases))
                => Stays
          /\ (OrgNeededStep(r, u) /\ InList(Lowered[u], OrgAckWords))
                => Stays
          /\ (ProcessNeededStep(r, u) /\ InList(Lowered[u], ContinueWords))
                => Stays
          /\ (/\ ProcessCreationConfirmStep(r, u)
              /\ ~ContainsAny(LoweredStripped[u], ProcessAffirmWords)
              /\ ~ContainsAny(LoweredStripped[u], ProcessNegativeWords))
                => Stays
          /\ (PageTitleStep(r, u) /\ InList(Lowered[u], ContinueWords))
                => Stays
          /\ (FieldsNeededStep(r, u) /\ InList(Lowered[u], ContinueWords))
                => Stays
          /\ (/\ FieldCreationConfirmStep(r, u)
              /\ ~ContainsAny(LoweredStripped[u], FieldAffirmWords)
              /\ ~ContainsAny(LoweredStripped[u], FieldNegativeWords))
                => Stays
          /\ (FieldDisplayTypeStep(r, u)
              /\ ~InList(LoweredStripped[u], valid_types))
                => Stays
          /\ (FieldValidationTypeStep(r, u) /\ u = U_empty)
                => Stays
          /\ CompleteStep(r, u)
                => Stays]_vars

\* the generation tool did not return rendered SQL
GenerationFailed(tool_result) == "raw" \notin DOMAIN tool_result

\* C6: if SQL generation does not succeed, the workflow stays in
\* SQL_GENERATION and is not advanced to COMPLETE.
C6_FailedGenerationStays ==
    [][\A r \in Clients, outcome \in PureToolOutcomes, today \in Dates :
          (/\ SqlReturn(r, outcome, today)
           /\ GenerationFailed(_call_tool(req[r].call, outcome, today)))
          => memory'.current_state = SQL_GENERATION]_vars

\* C7: COMPLETE is terminal.  Once current_state is COMPLETE, a step that
\* is not a reset changes no memory field and leaves no call waiting for a
\* tool.
C7_CompleteIsTerminal ==
    [][memory.current_state = COMPLETE
       => \/ \E r \in Clients : reset(r)
          \/ /\ memory' = memory
             /\ \A r \in Clients : req'[r].pc # "tool"]_vars

\* C7 witness: an utterance was processed in COMPLETE (only a step taken in
\* COMPLETE returns generated text while the state is COMPLETE)
C7_Witness ==
    /\ memory.current_state = COMPLETE
    /\ out.reply.kind = "llm"
    /\ out.action_taken = "none"

\* m is what a freshly created memory is said to be
Fresh(m) ==
    /\ m.current_state = IDLE
    /\ IsNone(m.org_id) /\ IsNone(m.org_name)
    /\ IsNone(m.process_id) /\ IsNone(m.process_name)
    /\ IsNone(m.event_id)
    /\ IsNone(m.page_id) /\ IsNone(m.page_title) /\ IsNone(m.page_url)
    /\ m.is_new_process = FALSE
    /\ IsNone(m.suggested_process_id)
    /\ m.group_id = 1
    /\ m.fields = <<>>
    /\ IsNone(m.pending_field_id)
    /\ IsNone(m.pending_display_type)
    /\ IsNone(m.pending_validation_type)

\* C8: reset, called from any reachable state, leaves the memory equal to a
\* freshly created one and the conversation transcript empty.
C8_ResetIsFresh ==
    [][\A r \in Clients :
          reset(r) => Fresh(memory') /\ conversation_history' = <<>>]_vars

\* C8 witness: the last call to return was a reset, and it has left a fresh
\* memory and an empty transcript
C8_Witness ==
    /\ out.reply.kind = "reset"
    /\ Fresh(memory)
    /\ conversation_history = <<>>

\* an optional text that is there and not empty
Present(o) == ~IsNone(o) /\ Val(o) # <<>>

\* C9: every field of memory.fields has a present display type and a
\* present validation type.
C9_FieldTypesPresent ==
    \A i \in 1..Len(memory.fields) :
        /\ Present(memory.fields[i].display_type)
        /\ Present(memory.fields[i].validation_type)

\* C10: an utterance is accepted only when no other call is in flight, and
\* a step that resumes after a tool call when current_state is no longer
\* the state it started in writes nothing to the memory.
C10_NoOverlappingSteps ==
    [][\A r \in Clients :
          /\ ChatStep(r) => ~Overlapping(r)
          /\ (ToolReturn(r) /\ memory.current_state # req[r].state)
                => memory' = memory]_vars

\* the step of caller r has run to its end and goes on to the reply
StepCompleted(r) == req'[r].pc = "llm"

\* C11: a failure of the tool call never reaches the state machine as an
\* exception.  The step completes normally and takes the state's not-found
\* or unsuccessful branch; for the organization lookup it leaves the state
\* at ORG_NEEDED with action organization_not_found and the memory as it
\* was.
C11_CallFailureIsAMiss ==
    [][\A r \in Clients :
          /\ OrgLookupReturn(r, "call_failed")
                => /\ StepCompleted(r)
                   /\ memory' = memory
                   /\ memory'.current_state = ORG_NEEDED
                   /\ req'[r].action_taken = "organization_not_found"
          /\ ProcessLookupReturn(r, "call_failed")
                => /\ memory' = memory
                   /\ req'[r].pc = "tool"
                   /\ req'[r].call.tool = "get_max_process_id"
          /\ MaxProcessIdReturn(r, "call_failed")
                => /\ StepCompleted(r)
                   /\ req'[r].action_taken = "process_not_found_ask_create"
          /\ EventLookupReturn(r, "call_failed")
                => /\ StepCompleted(r)
                   /\ memory'.event_id = memory.event_id
                   /\ memory'.page_id = memory.page_id
          /\ PageUrlReturn(r, "call_failed")
                => /\ StepCompleted(r)
                   /\ memory' = memory
          /\ FieldLookupReturn(r, "call_failed")
                => /\ StepCompleted(r)
                   /\ memory'.fields = memory.fields
                   /\ req'[r].action_taken = "field_not_found_ask_create"
          /\ \A today \in Dates :
                SqlReturn(r, "call_failed", today)
                => /\ out'.reply.kind = "tool_result"
                   /\ out'.action_taken = "sql_generated"]_vars

\* C11 witness: a generation call has failed and the step has returned the
\* miss-shaped response as its result
C11_Witness ==
    /\ out.action_taken = "sql_generated"
    /\ out.reply.kind = "tool_result"
    /\ "json" \in DOMAIN out.reply.tool_result
    /\ ~GetFlag(out.reply.tool_result.json, "success")

\* the response is a miss with an error: found is there and false, and an
\* error field is there
SoftFail(response) ==
    /\ "found" \in DOMAIN response
    /\ response.found = FALSE
    /\ "error" \in DOMAIN response

LookupTools ==
    {"get_organization_by_name", "get_process_by_name", "check_field_exists"}

\* C12: soft-fail to not-found.  For each of the three lookup tools, what
\* the tool answers to a pending lookup when the database raises is a
\* response object with found = false and an error field.
C12_SoftFailToNotFound ==
    \A r \in Clients :
        (req[r].pc = "tool" /\ req[r].call.tool \in LookupTools)
        => SoftFail(json_loads(_call_tool(req[r].call, "db_error", "none")))

\* caller r calls chat(u), whatever the call then does
ChatWith(r, u) ==
    \/ StatusQuery(r, u)
    \/ ProcessIdQuery(r, u)
    \/ IdleStep(r, u)
    \/ OrgNeededStep(r, u)
    \/ ProcessNeededStep(r, u)
    \/ ProcessCreationConfirmStep(r, u)
    \/ EventNeededStep(r, u)
    \/ PageTitleStep(r, u)
    \/ FieldsNeededStep(r, u)
    \/ FieldCreationConfirmStep(r, u)
    \/ FieldDisplayTypeStep(r, u)
    \/ FieldValidationTypeStep(r, u)
    \/ SqlGenerationStep(r, u)
    \/ CompleteStep(r, u)

\* u is a status query, or holds both 'process' and 'id' while a process id
\* is stored
IsConvenienceCommand(u) ==
    \/ u \in StatusUtterances
    \/ u \in ProcessIdUtterances /\ Truthy(memory.process_id)

\* C13: the two convenience commands are pure pre-filters in every state.
\* A call of chat() with a status query, or with an utterance that holds
\* both 'process' and 'id' while a process id is stored, returns its answer
\* at once: the state machine is not entered, no tool is called, and the
\* memory and the transcript are left as they were.
C13_ConvenienceCommandsArePure ==
    [][\A r \in Clients, u \in AllUtterances :
          (ChatWith(r, u) /\ IsConvenienceCommand(u))
          => /\ memory' = memory
             /\ conversation_history' = conversation_history
             /\ req'[r] = IdleRequest
             /\ out'.tool_calls = 0
             /\ out'.action_taken = "none"
             /\ out'.reply.kind \in {"summary", "process_id"}]_vars

\* C13 witness: a process-id query was answered where the utterance would
\* otherwise have been taken as a field id
C13_Witness ==
    /\ out.reply.kind = "process_id"
    /\ memory.current_state = FIELDS_NEEDED
    /\ \A r \in Clients : req[r].pc = "idle"

\* how many blocks of the rendered text belong to the named section
CountSection(text, section) ==
    IF "raw" \in DOMAIN text
    THEN Cardinality({i \in 1..Len(text.raw) : text.raw[i].section = section})
    ELSE 0

\* C14: the orgProcesses INSERT is emitted if and only if the aggregate
\* says is_new_process.  End to end: is_new_process is cleared when the
\* process is found, set when its creation is confirmed and changed by
\* nothing else but a reset, the aggregate carries the memory's value, and
\* the rendered script has one orgProcesses INSERT when it is set and none
\* when it is not.
C14_OrgProcessesIffNewProcess ==
    [][/\ \A r \in Clients, today \in Dates :
             SqlReturn(r, "ok", today)
             => LET form_data == req[r].call.form_data
                    n == CountSection(out'.reply.tool_result, "orgProcesses")
                IN  /\ form_data.is_new_process = memory.is_new_process
                    /\ n = IF form_data.is_new_process THEN 1 ELSE 0
       /\ \A r \in Clients :
             (ProcessLookupReturn(r, "ok") /\ memory'.current_state = EVENT_NEEDED)
             => ~memory'.is_new_process
       /\ \A r \in Clients, u \in AllUtterances :
             (/\ ProcessCreationConfirmStep(r, u)
              /\ memory'.current_state = PAGE_TITLE_NEEDED)
             => memory'.is_new_process
       /\ memory'.is_new_process # memory.is_new_process
          => \/ \E r \in Clients : ProcessLookupReturn(r, "ok")
             \/ \E r \in Clients, u \in AllUtterances :
                   ProcessCreationConfirmStep(r, u)
             \/ memory' = WorkflowMemory]_vars

\* C14 witness: a run whose process was created has rendered its script,
\* orgProcesses INSERT included
C14_Witness ==
    /\ out.action_taken = "sql_generated"
    /\ memory.current_state = COMPLETE
    /\ memory.is_new_process
    /\ CountSection(out.reply.tool_result, "orgProcesses") = 1

\* a run whose process was found has rendered its script without one
C14_WitnessFound ==
    /\ out.action_taken = "sql_generated"
    /\ memory.current_state = COMPLETE
    /\ ~memory.is_new_process
    /\ CountSection(out.reply.tool_result, "orgProcessEvents") = 1
    /\ CountSection(out.reply.tool_result, "orgProcesses") = 0

(***************************************************************************)
(* The other shipped front end: backend/api_server.py serving the          *)
(* assistant of backend/mcpclient.py.  That assistant has the eight states *)
(* IDLE .. COMPLETE without the confirmation states; its steps for IDLE,   *)
(* ORG_NEEDED, PAGE_TITLE_NEEDED, SQL_GENERATION and COMPLETE, the first   *)
(* halves of its steps for PROCESS_NEEDED and FIELDS_NEEDED, its special   *)
(* commands and its text-generation call read as the ones of               *)
(* clientreset.py; what differs is below.  Its class has no reset method.  *)
(***************************************************************************)
\* mcpclient.WorkflowMemory.__init__
mcpclient_WorkflowMemory ==
    [org_id |-> None, org_name |-> None, process_id |-> None,
     process_name |-> None, is_new_process |-> FALSE, event_id |-> None,
     page_id |-> None, page_title |-> None, page_url |-> None, group_id |-> 1,
     fields |-> <<>>, current_state |-> IDLE]

\* PROCESS_NEEDED after the lookup: a miss asks again
mcpclient_ProcessLookupReturn(r, outcome) ==
    /\ req[r].pc = "tool"
    /\ req[r].call.tool = "get_process_by_name"
    /\ outcome \in ToolOutcomes
    /\ LET result_data == json_loads(_call_tool(req[r].call, outcome, "none"))
       IN  IF GetFlag(result_data, "found")
           THEN /\ memory' = ProcessFound(memory, result_data)
                /\ req' = [req EXCEPT ![r] = AwaitingLLM("process_found", 1)]
           ELSE /\ memory' = memory
                /\ req' = [req EXCEPT ![r] = AwaitingLLM("process_not_found", 1)]
    /\ Resume(outcome)
    /\ UNCHANGED <<conversation_history, out>>

\* EVENT_NEEDED: the event lookup is always called
mcpclient_EventNeededStep(r, u) ==
    /\ EntersStateMachine(r, u, EVENT_NEEDED)
    /\ req' = [req EXCEPT ![r] =
          AwaitingTool(EVENT_NEEDED, None,
              [tool |-> "get_events_for_process",
               process_id |-> memory.process_id,
               org_id |-> memory.org_id], 1)]
    /\ Accept(r, u)
    /\ UNCHANGED <<memory, conversation_history, out>>

\* a faulty variant of the basic engine: the page id is not stored
mcpclient_EventLookupReturn_PageIdUnset(r, outcome) ==
    /\ req[r].pc = "tool"
    /\ req[r].call.tool = "get_events_for_process"
    /\ outcome \in ToolOutcomes
    /\ LET result_data == json_loads(_call_tool(req[r].call, outcome, "none"))
       IN  IF GetFlag(result_data, "success")
           THEN /\ memory' = [memory EXCEPT
                      !.event_id = Get(result_data, "suggestedNextEventId", None),
                      !.current_state = PAGE_TITLE_NEEDED]
                /\ req' = [req EXCEPT ![r] = AwaitingLLM("event_id_retrieved", 1)]
           ELSE /\ memory' = memory
                /\ req' = [req EXCEPT ![r] = AwaitingLLM("none", 1)]
    /\ Resume(outcome)
    /\ UNCHANGED <<conversation_history, out>>

\* EVENT_NEEDED after the lookup: only a successful answer advances
mcpclient_EventLookupReturn(r, outcome) ==
    /\ req[r].pc = "tool"
    /\ req[r].call.tool = "get_events_for_process"
    /\ outcome \in ToolOutcomes
    /\ LET result_data == json_loads(_call_tool(req[r].call, outcome, "none"))
       IN  IF GetFlag(result_data, "success")
           THEN /\ memory' = [memory EXCEPT
                      !.event_id = Get(result_data, "suggestedNextEventId", None),
                      !.page_id = Get(result_data, "suggestedNextEventId", None),
                      !.current_state = PAGE_TITLE_NEEDED]
                /\ req' = [req EXCEPT ![r] = AwaitingLLM("event_id_retrieved", 1)]
           ELSE /\ memory' = memory
                /\ req' = [req EXCEPT ![r] = AwaitingLLM("none", 1)]
    /\ Resume(outcome)
    /\ UNCHANGED <<conversation_history, out>>

\* FIELDS_NEEDED after the lookup: a field that is not found is added as a
\* new one, with default types
mcpclient_FieldLookupReturn(r, outcome) ==
    /\ req[r].pc = "tool"
    /\ req[r].call.tool = "check_field_exists"
    /\ outcome \in ToolOutcomes
    /\ LET result_data == json_loads(_call_tool(req[r].call, outcome, "none"))
       IN  IF GetFlag(result_data, "found")
           THEN /\ memory' = [memory EXCEPT
                      !.fields = Append(@, ExistingField(result_data))]
                /\ req' = [req EXCEPT ![r] = AwaitingLLM("field_added_existing", 1)]
           ELSE /\ memory' = [memory EXCEPT
                      !.fields = Append(@, [field_id |-> req[r].user_input,
                                            existing |-> FALSE,
                                            display_type |-> Some(U_label),
                                            validation_type |-> Some(U_E)])]
                /\ req' = [req EXCEPT ![r] = AwaitingLLM("field_added_new", 1)]
    /\ Resume(outcome)
    /\ UNCHANGED <<conversation_history, out>>

\* api_server.py, POST /reset: assistant.reset_session() is not a method of
\* the assistant; the AttributeError is caught and answered with status 500
reset_chat(r) ==
    /\ Admitted(r)
    /\ Return(r, "none", 0, [kind |-> "error"])
    /\ scn' = -1
    /\ CountOverlap(r)
    /\ UNCHANGED <<memory, conversation_history>>

InitApiServer ==
    /\ memory = mcpclient_WorkflowMemory
    /\ conversation_history = <<>>
    /\ req = [r \in Clients |-> IdleRequest]
    /\ out = [action_taken |-> "none", tool_calls |-> 0, reply |-> NoReply]
    /\ scn = -1
    /\ overlaps = 0

mcpclient_ChatStep(r) ==
    \/ \E u \in Inputs(memory.current_state) : StatusQuery(r, u)
    \/ \E u \in Inputs(memory.current_state) : ProcessIdQuery(r, u)
    \/ \E u \in Inputs(memory.current_state) : IdleStep(r, u)
    \/ \E u \in Inputs(memory.current_state) : OrgNeededStep(r, u)
    \/ \E u \in Inputs(memory.current_state) : ProcessNeededStep(r, u)
    \/ \E u \in Inputs(memory.current_state) : mcpclient_EventNeededStep(r, u)
    \/ \E u \in Inputs(memory.current_state) : PageTitleStep(r, u)
    \/ \E u \in Inputs(memory.current_state) : FieldsNeededStep(r, u)
    \/ \E u \in Inputs(memory.current_state) : SqlGenerationStep(r, u)
    \/ \E u \in Inputs(memory.current_state) : CompleteStep(r, u)

mcpclient_ToolReturn(r) ==
    \/ \E outcome \in ToolOutcomes : OrgLookupReturn(r, outcome)
    \/ \E outcome \in ToolOutcomes : mcpclient_ProcessLookupReturn(r, outcome)
    \/ \E outcome \in ToolOutcomes : mcpclient_EventLookupReturn(r, outcome)
    \/ \E outcome \in PureToolOutcomes : PageUrlReturn(r, outcome)
    \/ \E outcome \in ToolOutcomes : mcpclient_FieldLookupReturn(r, outcome)
    \/ \E outcome \in PureToolOutcomes, today \in Dates :
            SqlReturn(r, outcome, today)

NextApiServer ==
    \/ mcpclient_ChatStep(1)
    \/ mcpclient_ToolReturn(1)
    \/ \E ok \in BOOLEAN : LLMReturn(1, ok)
    \/ reset_chat(1)

SpecApiServer == InitApiServer /\ [][NextApiServer]_vars

(***************************************************************************)
(* A conversation that is never reset, with a cooperating user: in every   *)
(* state the user again and again gives a reply that the state can use,    *)
(* a tool that is called again and again for such a reply eventually       *)
(* answers, and every awaited call returns.  Replies that lead nowhere and *)
(* failing tools remain possible in between.                               *)
(***************************************************************************)
\* the replies of the model that a state can use to get on
AdvancingReplies(state) ==
    CASE state = IDLE -> { U_create_a_form }
      [] state = ORG_NEEDED -> { U_Acme_Inc }
      [] state = PROCESS_NEEDED -> { U_Onboarding, U_Payroll }
      [] state = PROCESS_CREATION_CONFIRM -> { U_yes }
      [] state = EVENT_NEEDED -> { U_hello, U_ok }
      [] state = PAGE_TITLE_NEEDED -> { U_Task_Details }
      [] state = FIELDS_NEEDED ->
            IF memory.fields = <<>> THEN { U_email, U_name } ELSE { U_done }
      [] state = FIELD_CREATION_CONFIRM -> { U_yes }
      [] state = FIELD_DISPLAY_TYPE -> { U_label }
      [] state = FIELD_VALIDATION_TYPE -> { U_E }
      [] state = SQL_GENERATION -> { U_hello, U_ok, U_done }
      [] OTHER -> {}

\* the user gives such a reply in the given state
CooperateIn(state, r) ==
    /\ memory.current_state = state
    /\ \E u \in AdvancingReplies(state) :
          \/ IdleStep(r, u)
          \/ OrgNeededStep(r, u)
          \/ ProcessNeededStep(r, u)
          \/ ProcessCreationConfirmStep(r, u)
          \/ EventNeededStep(r, u)
          \/ PageTitleStep(r, u)
          \/ FieldsNeededStep(r, u)
          \/ FieldCreationConfirmStep(r, u)
          \/ FieldDisplayTypeStep(r, u)
          \/ FieldValidationTypeStep(r, u)
          \/ SqlGenerationStep(r, u)

\* an awaited tool answers and the step gets on with the answer
ToolSucceeds(r) ==
    /\ \/ OrgLookupReturn(r, "ok")
       \/ ProcessLookupReturn(r, "ok")
       \/ MaxProcessIdReturn(r, "ok")
       \/ EventLookupReturn(r, "ok")
       \/ PageUrlReturn(r, "ok")
       \/ FieldLookupReturn(r, "ok")
       \/ \E today \in Dates : SqlReturn(r, "ok", today)
    /\ \/ memory' # memory
       \/ req'[r].pc = "tool"

NextNoReset ==
    \/ ChatStep(1)
    \/ ToolReturn(1)
    \/ \E ok \in BOOLEAN : LLMReturn(1, ok)

\* the two states from which a reply can lead back to an earlier state
ConfirmStates == { PROCESS_CREATION_CONFIRM, FIELD_CREATION_CONFIRM }

FairCooperation ==
    /\ SF_vars(\E state \in ConfirmStates : CooperateIn(state, 1))
    /\ SF_vars(\E state \in WorkflowState \ ConfirmStates :
                  CooperateIn(state, 1))
    /\ SF_vars(ToolSucceeds(1))
    /\ WF_vars(ToolReturn(1))
    /\ WF_vars(\E ok \in BOOLEAN : LLMReturn(1, ok))

SpecCooperative == Init /\ [][NextNoReset]_vars /\ FairCooperation

(***************************************************************************)
(* Properties of the renderer, stated of a direct call of the generation   *)
(* tool (SpecRender): the aggregate is the call's argument, the script is  *)
(* what the call returned.                                                 *)
(***************************************************************************)
Rendered == req[1].pc = "direct" /\ out.reply.kind = "tool_result"

Aggregate == req[1].call.form_data

\* the statements of one section of the returned script, in order
BlocksOf(section) ==
    SelectSeq(out.reply.tool_result.raw, LAMBDA b : b.section = section)

\* C15: for a field list of length N the generator emits exactly N
\* orgPageValues statements; the i-th carries recSeq = i and the field id of
\* the i-th field, and the pageId and orgId of the aggregate (as the
\* orgProcessEvents statement of the same script carries them), whatever
\* the per-field attributes are.
C15_PageValuesFollowTheFieldList ==
    Rendered
    => LET pvs == BlocksOf("orgPageValues")
           ev == BlocksOf("orgProcessEvents")[1]
       IN  /\ Len(pvs) = Len(Aggregate.page_values)
           /\ \A i \in 1..Len(pvs) :
                 /\ pvs[i].recSeq = IntToStr(i)
                 /\ pvs[i].fieldId =
                       Quoted(PyStr(Aggregate.page_values[i].field_id))
                 /\ pvs[i].pageId = ev.pageId
                 /\ pvs[i].orgId = ev.orgId

\* the keys a page value needs for the statement of C15 to fail
OverridingKeys == {"rec_seq", "page_id", "org_id"}

\* the statement of C15 restricted to aggregates none of whose page values
\* carries a key named like a statement-level value
C15_WithoutOverridingKeys ==
    (\A i \in 1..Len(Aggregate.page_values) :
        DOMAIN Aggregate.page_values[i] \cap OverridingKeys = {})
    => C15_PageValuesFollowTheFieldList

\* the sections of a script in their fixed order
SectionOrder ==
    <<"header", "orgProcesses", "orgProcessEvents", "adminPages",
      "adminFormGroups", "adminFieldGroups", "adminFields", "orgPageValues">>

Rank(section) == CHOOSE k \in 1..Len(SectionOrder) : SectionOrder[k] = section

\* the section of every statement of the returned script, blank lines left out
SectionsEmitted ==
    LET stmts == SelectSeq(out.reply.tool_result.raw,
                           LAMBDA b : b.section # "blank")
    IN  [i \in 1..Len(stmts) |-> stmts[i].section]

IsPresent(section) == CountSection(out.reply.tool_result, section) > 0

\* C16: the sections come in the fixed order header, orgProcesses,
\* orgProcessEvents, adminPages, adminFormGroups, adminFieldGroups,
\* adminFields, orgPageValues.  Header, orgProcessEvents and adminPages are
\* always there (once each); each other section is there exactly when its
\* condition holds; no statement comes before one of an earlier section.
C16_SectionsInFixedOrder ==
    Rendered
    => /\ \A i \in 1..Len(SectionsEmitted) :
             \E k \in 1..Len(SectionOrder) :
                SectionsEmitted[i] = SectionOrder[k]
       /\ \A i, j \in 1..Len(SectionsEmitted) :
             i < j => Rank(SectionsEmitted[i]) <= Rank(SectionsEmitted[j])
       /\ CountSection(out.reply.tool_result, "header") = 1
       /\ CountSection(out.reply.tool_result, "orgProcessEvents") = 1
       /\ CountSection(out.reply.tool_result, "adminPages") = 1
       /\ IsPresent("orgProcesses") <=> Aggregate.is_new_process
       /\ IsPresent("adminFormGroups") <=> Aggregate.is_new_group
       /\ IsPresent("adminFieldGroups") <=> Aggregate.field_groups # <<>>
       /\ IsPresent("adminFields") <=> Aggregate.new_fields # <<>>
       /\ IsPresent("orgPageValues") <=> Aggregate.page_values # <<>>

\* C16 witness: a script with all eight sections, two of them with two
\* statements each
C16_Witness ==
    /\ Rendered
    /\ \A k \in 1..Len(SectionOrder) : IsPresent(SectionOrder[k])
    /\ Len(Aggregate.field_groups) = 2
    /\ Len(Aggregate.page_values) = 2

\* the statements of one section of a tool's text, in order
SectionBlocks(text, section) ==
    IF "raw" \in DOMAIN text
    THEN SelectSeq(text.raw, LAMBDA b : b.section = section)
    ELSE <<>>

\* the fields of the memory that were not found by lookup, in list order
FieldsToCreate(m) == SelectSeq(m.fields, LAMBDA f : ~f.existing)

\* C17: the adminFields section has exactly one INSERT per field with
\* existing = false, in list order, and none for a field with existing =
\* true; the aggregate's new_fields is the subsequence of memory.fields with
\* existing = false.  A field found by lookup is appended with existing =
\* true, a field created through the confirm, display-type and
\* validation-type states with existing = false, and the list changes in
\* no other way but by a reset.
C17_AdminFieldsAreTheNewFields ==
    [][/\ \A r \in Clients, today \in Dates :
             SqlReturn(r, "ok", today)
             => LET inserts == SectionBlocks(out'.reply.tool_result, "adminFields")
                    created == FieldsToCreate(memory)
                IN  /\ req[r].call.form_data.new_fields = created
                    /\ Len(inserts) = Len(created)
                    /\ \A i \in 1..Len(created) :
                          inserts[i].fieldId = Quoted(PyStr(created[i].field_id))
       /\ memory'.fields # memory.fields
          => \/ memory' = WorkflowMemory
             \/ /\ Len(memory'.fields) = Len(memory.fields) + 1
                /\ SubSeq(memory'.fields, 1, Len(memory.fields)) = memory.fields
                /\ LET added == memory'.fields[Len(memory'.fields)]
                   IN  \/ /\ \E r \in Clients : FieldLookupReturn(r, "ok")
                          /\ added.existing
                       \/ /\ \E r \in Clients, u \in AllUtterances :
                                FieldValidationTypeStep(r, u)
                          /\ ~added.existing]_vars

\* C17 witness: a script was rendered for a found field followed by a
\* created one, with one adminFields INSERT, for the created field
C17_Witness ==
    /\ out.action_taken = "sql_generated"
    /\ memory.current_state = COMPLETE
    /\ Len(memory.fields) = 2
    /\ memory.fields[1].existing
    /\ ~memory.fields[2].existing
    /\ Len(SectionBlocks(out.reply.tool_result, "adminFields")) = 1
    /\ SectionBlocks(out.reply.tool_result, "adminFields")[1].fieldId
          = Quoted(Val(memory.fields[2].field_id))

\* every single quote of s is one of a doubled pair
RECURSIVE QuotesDoubled(_)
QuotesDoubled(s) ==
    IF s = <<>> THEN TRUE
    ELSE IF Head(s) = "'"
    THEN Len(s) >= 2 /\ s[2] = "'" /\ QuotesDoubled(SubSeq(s, 3, Len(s)))
    ELSE QuotesDoubled(Tail(s))

\* lit is one SQL literal: it opens with a quote, closes with a quote and
\* no quote in between ends it early
ClosedLiteral(lit) ==
    /\ Len(lit) >= 2
    /\ lit[1] = "'"
    /\ lit[Len(lit)] = "'"
    /\ QuotesDoubled(SubSeq(lit, 2, Len(lit) - 1))

\* what a statement emits for the free-text values it writes between quotes
FreeTextLiterals(b) ==
    CASE b.section = "orgProcesses" ->
            {b.orgId, b.processName, b.apiRouteName}
      [] b.section = "orgProcessEvents" -> {b.orgId, b.eventName}
      [] b.section = "adminPages" ->
            {b.pageURL, b.pageTitle, b.pageDisplayName}
      [] b.section = "adminFields" ->
            {b.fieldId, b.dataFieldId, b.displayType, b.validationType}
      [] b.section = "orgPageValues" ->
            {b.orgId, b.fieldId, b.displayLabel, b.displayType,
             b.validationType}
      [] OTHER -> {}

\* the same for the values that the templates pass through the replace filter
EscapedLiterals(b) ==
    CASE b.section = "orgProcesses" -> {b.processName, b.apiRouteName}
      [] b.section = "orgProcessEvents" -> {b.eventName}
      [] b.section = "adminPages" -> {b.pageTitle, b.pageDisplayName}
      [] b.section = "orgPageValues" -> {b.displayLabel}
      [] OTHER -> {}

\* C18: every free-text value that the generator writes into a quoted SQL
\* literal (organization id, process name, event name, page title, page
\* URL, field id, display label, display type, validation type) has each
\* of its single quotes doubled, so that no value ends its literal early.
C18_QuotesAreDoubled ==
    Rendered
    => \A i \in 1..Len(out.reply.tool_result.raw) :
          \A lit \in FreeTextLiterals(out.reply.tool_result.raw[i]) :
             ClosedLiteral(lit)

\* the statement of C18 for the process name, event name, page title and
\* display label alone
C18_FilteredValuesAreDoubled ==
    Rendered
    => \A i \in 1..Len(out.reply.tool_result.raw) :
          \A lit \in EscapedLiterals(out.reply.tool_result.raw[i]) :
             ClosedLiteral(lit)

\* a script was rendered for a process name with a single quote in it
C18_QuotedNameRendered ==
    /\ Rendered
    /\ Aggregate.process_name = Some(T_quoted)
    /\ BlocksOf("orgProcessEvents")[1].eventName = Quoted(<<"a", "'", "'", "b">>)

\* the value under key is null or the key is missing
Absent(d, key) == key \notin DOMAIN d \/ IsNone(d[key])

\* C19: for a value that is absent (null or missing) in the aggregate the
\* generator emits the bare token NULL, never the quoted string 'NULL' and
\* never the text None: for display_label, display_type and
\* validation_type of a page value, for the ids of the aggregate, and (bare
\* NULL or the default, but neither 'NULL' nor 'None') for the types of a
\* new field.
C19_AbsentIsBareNull ==
    Rendered
    => /\ \A i \in 1..Len(Aggregate.page_values) :
             LET pv == Aggregate.page_values[i]
                 b == BlocksOf("orgPageValues")[i]
             IN  /\ Absent(pv, "display_label") => b.displayLabel = S_NULL
                 /\ Absent(pv, "display_type") => b.displayType = S_NULL
                 /\ Absent(pv, "validation_type") => b.validationType = S_NULL
       /\ Absent(Aggregate, "page_id")
          => BlocksOf("adminPages")[1].pageId = S_NULL
       /\ Absent(Aggregate, "event_id")
          => BlocksOf("orgProcessEvents")[1].eventId = S_NULL
       /\ \A i \in 1..Len(Aggregate.new_fields) :
             LET b == BlocksOf("adminFields")[i]
             IN  {b.displayType, b.validationType}
                    \cap {Quoted(S_NULL), Quoted(S_None), S_None} = {}

\* the statement of C19 is not vacuous: what is rendered for an aggregate
\* with none of these values absent
C19_PresentValuesRendered ==
    /\ Rendered
    /\ Len(Aggregate.page_values) = 1
    /\ ~Absent(Aggregate.page_values[1], "display_type")
    /\ BlocksOf("orgPageValues")[1].displayType = Quoted(U_label)

\* the date values that the statements of a text carry
DatesCarried(text) ==
    {text.raw[i].fromDate :
        i \in {k \in 1..Len(text.raw) : "fromDate" \in DOMAIN text.raw[k]}}

\* the text was rendered on the day `today` (the orgProcessEvents statement
\* is in every script and takes its date from the call alone)
RenderedOn(text, today) ==
    /\ "raw" \in DOMAIN text
    /\ SectionBlocks(text, "orgProcessEvents")[1].fromDate = today

\* C20: rendering is deterministic.  A second render call for the same
\* aggregate on the same date returns the text the first returned, and
\* within one call every statement carries the same date value.
C20_RenderingIsDeterministic ==
    [][\A today \in Dates :
          Render(1, today)
          => /\ (out.reply.kind = "tool_result"
                 /\ RenderedOn(out.reply.tool_result, today))
                => out'.reply = out.reply
             /\ DatesCarried(out'.reply.tool_result) = {today}]_vars

\* the statement of C20 for aggregates none of whose page values has a key
\* named today
C20_WithoutDateKeys ==
    [][\A today \in Dates :
          (/\ Render(1, today)
           /\ \A i \in 1..Len(Aggregate.page_values) :
                 "today" \notin DOMAIN Aggregate.page_values[i])
          => /\ (out.reply.kind = "tool_result"
                 /\ RenderedOn(out.reply.tool_result, today))
                => out'.reply = out.reply
             /\ DatesCarried(out'.reply.tool_result) = {today}]_vars

\* C21: when the SQL_GENERATION step succeeds, chat() returns exactly the
\* text the generation tool produced for the aggregate of the step: the
\* language model is not called, the text is not transformed, and neither
\* half of the step extends the transcript.
C21_SqlReturnedVerbatim ==
    [][/\ \A r \in Clients, u \in AllUtterances :
             SqlGenerationStep(r, u)
             => /\ conversation_history' = conversation_history
                /\ req'[r].pc # "llm"
                /\ req'[r].pc = "tool"
                   => req'[r].call.form_data = FormData(memory)
       /\ \A r \in Clients, today \in Dates :
             SqlReturn(r, "ok", today)
             => /\ out'.reply =
                     [kind |-> "tool_result",
                      tool_result |->
                         [raw |-> generate_form_page_sql(
                                      req[r].call.form_data, today)]]
                /\ out'.action_taken = "sql_generated"
                /\ req'[r] = IdleRequest
                /\ conversation_history' = conversation_history]_vars

\* C21 witness: a script was returned after a conversation that has a
\* transcript
C21_Witness ==
    /\ out.action_taken = "sql_generated"
    /\ out.reply.kind = "tool_result"
    /\ "raw" \in DOMAIN out.reply.tool_result
    /\ Len(conversation_history) > 0
    /\ memory.current_state = COMPLETE
    /\ \A r \in Clients : req[r].pc = "idle"

\* caller r's step issues a tool call in this transition
IssuesCall(r) == req'[r].pc = "tool" /\ req'[r] # req[r]

\* the process lookup that caller r awaits returns without a found process
ProcessLookupMisses(r) ==
    /\ req[r].pc = "tool"
    /\ req[r].state = PROCESS_NEEDED
    /\ req[r].call.tool = "get_process_by_name"
    /\ \E outcome \in ToolOutcomes :
          /\ ProcessLookupReturn(r, outcome)
          /\ ~GetFlag(json_loads(_call_tool(req[r].call, outcome, "none")),
                      "found")

\* C22: no step issues more than two tool calls, and the calls of a step
\* are issued one after the other.  The number of calls of a step is 0, 1
\* or 2; a call is issued either when the step starts or when the call
\* before it has returned, and counts one more; a second call is issued
\* only in PROCESS_NEEDED, when the process lookup has returned a miss; what
\* the step reports at its end is the number of calls it issued.
C22_AtMostTwoCallsInSequence ==
    [][\A r \in Clients :
          /\ req'[r].tool_calls \in 0..2
          /\ out'.tool_calls \in 0..2
          /\ IssuesCall(r)
             => /\ req'[r].tool_calls = req[r].tool_calls + 1
                /\ req[r].pc \in {"idle", "tool"}
                /\ req[r].pc = "idle" => req'[r].tool_calls = 1
                /\ req'[r].tool_calls = 2 => ProcessLookupMisses(r)
          /\ (req[r].pc # "idle" /\ req'[r].pc # "idle")
             => req'[r].tool_calls >= req[r].tool_calls
          /\ (req[r].pc # "idle" /\ req'[r].pc = "idle")
             => out'.tool_calls = req[r].tool_calls]_vars

\* C22 witness: a step is awaiting its second call
C22_Witness ==
    \E r \in Clients :
       /\ req[r].pc = "tool"
       /\ req[r].tool_calls = 2
       /\ req[r].call.tool = "get_max_process_id"
       /\ memory.current_state = PROCESS_NEEDED

\* the transcript has reached the length at which the model stops the
\* conversation
TranscriptFull == Len(conversation_history) >= MaxHistory

\* C23: no reachable state is a dead end.  In a conversation without reset
\* in which the user keeps giving replies that the state can use and the
\* tools eventually answer, the workflow leaves every state that is not
\* COMPLETE and eventually reaches COMPLETE (as far as the conversation
\* fits into the transcript of the model).
C23_EventuallyComplete ==
    (memory.current_state # COMPLETE)
       ~> (memory.current_state = COMPLETE \/ TranscriptFull)

\* C23 witness: COMPLETE was reached without reset, with room left in the
\* transcript, for a created process with a created field
C23_Witness ==
    /\ memory.current_state = COMPLETE
    /\ ~TranscriptFull
    /\ memory.is_new_process
    /\ Len(memory.fields) > 0
    /\ ~memory.fields[1].existing
    /\ out.action_taken = "sql_generated"

\* a freshly created memory of the assistant of mcpclient.py
mcpclient_Fresh(m) == m = mcpclient_WorkflowMemory

\* C24: every shipped front end has a working reset.  A reset request that
\* arrives while the assistant is ready succeeds and leaves the workflow at
\* IDLE with an empty memory and an empty transcript: POST /reset of
\* apiserverreset.py (reset) and POST /reset of api_server.py (reset_chat).
C24_EveryFrontEndResets ==
    [][\A r \in Clients :
          /\ reset(r)
             => /\ out'.reply.kind = "reset"
                /\ Fresh(memory')
                /\ conversation_history' = <<>>
          /\ reset_chat(r)
             => /\ out'.reply.kind = "reset"
                /\ mcpclient_Fresh(memory')
                /\ conversation_history' = <<>>]_vars

\* the reply is one of the words of the list (blanks and case aside)
IsWordOf(u, words) == InList(LoweredStripped[u], words)

\* C25: in PROCESS_CREATION_CONFIRM a negative reply (no, n, wrong, cancel,
\* retry) moves to PROCESS_NEEDED and clears process_name and
\* suggested_process_id, and sets none of is_new_process, process_id,
\* event_id, page_id; an affirmative reply confirms; a reply that is neither
\* leaves state and memory unchanged.  No negative word is treated as a
\* confirmation.
C25_ProcessConfirmBranches ==
    [][\A r \in Clients, u \in AllUtterances :
          ProcessCreationConfirmStep(r, u)
          => /\ IsWordOf(u, ProcessNegativeWords)
                => /\ memory'.current_state = PROCESS_NEEDED
                   /\ IsNone(memory'.process_name)
                   /\ IsNone(memory'.suggested_process_id)
                   /\ memory'.is_new_process = memory.is_new_process
                   /\ memory'.process_id = memory.process_id
                   /\ memory'.event_id = memory.event_id
                   /\ memory'.page_id = memory.page_id
             /\ IsWordOf(u, ProcessAffirmWords)
                => memory' = NewProcessConfirmed(memory)
             /\ (/\ ~IsWordOf(u, ProcessNegativeWords)
                 /\ ~IsWordOf(u, ProcessAffirmWords))
                => memory' = memory]_vars

\* the statement of C25 for every reply of the model but the word retry
C25_BranchesButForRetry ==
    [][\A r \in Clients, u \in AllUtterances \ {U_retry} :
          ProcessCreationConfirmStep(r, u)
          => /\ IsWordOf(u, ProcessNegativeWords)
                => memory' = ProcessNameRetry(memory)
             /\ IsWordOf(u, ProcessAffirmWords)
                => memory' = NewProcessConfirmed(memory)
             /\ (/\ ~IsWordOf(u, ProcessNegativeWords)
                 /\ ~IsWordOf(u, ProcessAffirmWords))
                => memory' = memory]_vars

\* the step has ended in PAGE_TITLE_NEEDED with both ids stored
EventAssigned(m) ==
    /\ m.current_state = PAGE_TITLE_NEEDED
    /\ ~IsNone(m.event_id)
    /\ ~IsNone(m.page_id)

\* what C26 says of the return of the event lookup with the given outcome
EventStepAsSpecified(r, outcome) ==
    EventLookupReturn(r, outcome)
    => LET result_data == json_loads(_call_tool(req[r].call, outcome, "none"))
       IN  /\ EventAssigned(memory')
           /\ GetFlag(result_data, "success")
              => /\ memory'.event_id = result_data.suggestedNextEventId
                 /\ memory'.page_id = result_data.suggestedNextEventId

\* what C26 says of the first half of the step
EventStepStarts(r, u) ==
    EventNeededStep(r, u)
    => IF memory.is_new_process
       THEN /\ req'[r].pc = "llm"
            /\ req'[r].tool_calls = 0
            /\ memory'.event_id = memory.event_id
            /\ memory'.page_id = memory.page_id
            /\ EventAssigned(memory')
       ELSE /\ req'[r].pc = "tool"
            /\ req'[r].call.tool = "get_events_for_process"
            /\ req'[r].call.process_id = memory.process_id
            /\ memory' = memory

\* C26: EVENT_NEEDED executes on the next step whatever the utterance is.
\* For an existing process the step calls the event lookup and on success
\* stores event_id = page_id = the suggested next event id; for a new
\* process it calls no tool and leaves the two ids as they are.  After the
\* step the state is PAGE_TITLE_NEEDED and event_id and page_id are not null.
C26_EventStepAssignsIds ==
    [][\A r \in Clients :
          /\ \A u \in AllUtterances : EventStepStarts(r, u)
          /\ \A outcome \in ToolOutcomes : EventStepAsSpecified(r, outcome)]_vars

\* the statement of C26 for a lookup that answers
C26_WhenTheLookupAnswers ==
    [][\A r \in Clients :
          /\ \A u \in AllUtterances : EventStepStarts(r, u)
          /\ EventStepAsSpecified(r, "ok")]_vars

\* the process rows of the organization stored in memory that bear the name
ProcessesNamed(process_name, org_id) ==
    { row \in orgProcesses :
         row.processName = process_name /\ Some(row.orgId) = org_id }

\* C27: in PROCESS_NEEDED an utterance that is not a bare continue word
\* starts a process lookup by name within the stored organization; when the
\* process is found its id and name are stored, is_new_process is false and
\* the state becomes EVENT_NEEDED; a bare continue word calls no tool and
\* leaves the memory as it is.
C27_ProcessLookupScopedToOrg ==
    [][\A r \in Clients :
          /\ \A u \in AllUtterances :
                ProcessNeededStep(r, u)
                => /\ memory' = memory
                   /\ IF InList(Lowered[u], ContinueWords)
                      THEN /\ req'[r].pc = "llm"
                           /\ req'[r].tool_calls = 0
                      ELSE /\ req'[r].pc = "tool"
                           /\ req'[r].call =
                                 [tool |-> "get_process_by_name",
                                  process_name |-> u,
                                  org_id |-> memory.org_id]
          /\ \A outcome \in ToolOutcomes :
                ( /\ ProcessLookupReturn(r, outcome)
                  /\ outcome = "ok"
                  /\ ProcessesNamed(req[r].call.process_name, memory.org_id) # {} )
                => /\ \E row \in ProcessesNamed(req[r].call.process_name,
                                                memory.org_id) :
                         /\ memory'.process_id = Some(row.processId)
                         /\ memory'.process_name = Some(row.processName)
                   /\ memory'.is_new_process = FALSE
                   /\ memory'.current_state = EVENT_NEEDED
                   /\ memory'.org_id = memory.org_id
                   /\ memory'.fields = memory.fields]_vars

\* an existing process has just been found and stored
C27_Witness ==
    /\ req[1].pc = "llm"
    /\ req[1].action_taken = "process_found"
    /\ memory.current_state = EVENT_NEEDED
    /\ ~IsNone(memory.process_id)
    /\ ~memory.is_new_process

\* the two states that follow the collection of fields
AfterFields == { SQL_GENERATION, COMPLETE }

\* C28 (state part): SQL_GENERATION and COMPLETE are only entered with at
\* least one field collected.
C28_FieldsBeforeSql ==
    memory.current_state \in AfterFields => Len(memory.fields) >= 1

\* C28: a done word in FIELDS_NEEDED advances to SQL_GENERATION when the
\* field list is not empty and leaves state and memory unchanged when it is
\* empty; hence whenever the state is SQL_GENERATION or COMPLETE at least
\* one field has been collected.
C28_DoneNeedsAField ==
    [][/\ memory'.current_state \in AfterFields => Len(memory'.fields) >= 1
       /\ \A r \in Clients : \A u \in AllUtterances :
             (FieldsNeededStep(r, u) /\ InList(Lowered[u], DoneWords))
             => /\ req'[r].pc = "llm"
                /\ req'[r].tool_calls = 0
                /\ IF Len(memory.fields) = 0
                   THEN memory' = memory
                   ELSE memory' =
                           [memory EXCEPT !.current_state = SQL_GENERATION]
       /\ ( /\ memory.current_state \notin AfterFields
            /\ memory'.current_state \in AfterFields )
          => \E r \in Clients : \E u \in AllUtterances :
                /\ FieldsNeededStep(r, u)
                /\ InList(Lowered[u], DoneWords)
                /\ Len(memory.fields) >= 1]_vars

\* a done word has been refused on an empty list
C28_Refused ==
    /\ req[1].pc = "llm"
    /\ req[1].action_taken = "no_fields_added"
    /\ memory.current_state = FIELDS_NEEDED
    /\ memory.fields = <<>>

\* a done word has closed a list of fields
C28_Witness ==
    /\ req[1].pc = "llm"
    /\ req[1].action_taken = "fields_complete"
    /\ memory.current_state = SQL_GENERATION
    /\ Len(memory.fields) >= 1

\* the rows of adminFields the typed id matches, whatever its casing
FieldsMatching(typed) ==
    { row \in adminFields : Lower(row.fieldId) = Lower(typed) }

\* the list entry C29 specifies for a row found by the lookup
FieldFromRow(row) ==
    [field_id |-> Some(row.fieldId),
     existing |-> TRUE,
     display_type |-> Some(row.displayType),
     validation_type |-> Some(row.validationType)]

\* C29: in FIELDS_NEEDED an utterance that is neither a done word nor a bare
\* continue word is looked up as a field id.  When the field is found,
\* exactly one entry {id as the lookup returns it, existing = true, display
\* and validation type of the lookup} is appended and the state stays
\* FIELDS_NEEDED; when it is not found the list is unchanged,
\* pending_field_id holds the id as typed and the state becomes
\* FIELD_CREATION_CONFIRM.
C29_FieldLookup ==
    [][\A r \in Clients :
          /\ \A u \in AllUtterances :
                ( /\ FieldsNeededStep(r, u)
                  /\ ~InList(Lowered[u], DoneWords)
                  /\ ~InList(Lowered[u], ContinueWords) )
                => /\ memory' = memory
                   /\ req'[r].pc = "tool"
                   /\ req'[r].call =
                         [tool |-> "check_field_exists", field_id |-> u]
                   /\ req'[r].user_input = Some(u)
          /\ \A outcome \in ToolOutcomes :
                FieldLookupReturn(r, outcome)
                => LET typed == Val(req[r].user_input)
                       found == outcome = "ok" /\ FieldsMatching(typed) # {}
                   IN  IF found
                       THEN \E row \in FieldsMatching(typed) :
                               memory' = [memory EXCEPT
                                   !.fields = Append(@, FieldFromRow(row))]
                       ELSE memory' = [memory EXCEPT
                                   !.pending_field_id = Some(typed),
                                   !.current_state = FIELD_CREATION_CONFIRM]]_vars

\* 'name' has been looked up and stored under the casing of the table
C29_Witness ==
    /\ req[1].pc = "llm"
    /\ req[1].action_taken = "field_added_existing"
    /\ memory.current_state = FIELDS_NEEDED
    /\ Len(memory.fields) >= 1
    /\ memory.fields[Len(memory.fields)].field_id = Some(<<"N","a","m","e">>)
    /\ memory.fields[Len(memory.fields)].existing

\* 'email' has not been found and waits for a confirmation
C29_NotFound ==
    /\ req[1].pc = "llm"
    /\ req[1].action_taken = "field_not_found_ask_create"
    /\ memory.current_state = FIELD_CREATION_CONFIRM
    /\ memory.pending_field_id = Some(U_email)

\* the states in which a field is being created
FieldCreationStates ==
    { FIELD_CREATION_CONFIRM, FIELD_DISPLAY_TYPE, FIELD_VALIDATION_TYPE }

\* the three branches of FIELD_CREATION_CONFIRM on the reply u
FieldConfirmBranches(r, u) ==
    FieldCreationConfirmStep(r, u)
    => /\ req'[r].pc = "llm"
       /\ req'[r].tool_calls = 0
       /\ memory'.fields = memory.fields
       /\ IsWordOf(u, FieldAffirmWords)
          => memory' = [memory EXCEPT !.current_state = FIELD_DISPLAY_TYPE]
       /\ IsWordOf(u, FieldNegativeWords)
          => memory' = [memory EXCEPT !.pending_field_id = None,
                                      !.current_state = FIELDS_NEEDED]
       /\ (/\ ~IsWordOf(u, FieldAffirmWords)
           /\ ~IsWordOf(u, FieldNegativeWords))
          => memory' = memory

\* no id is pending outside the creation states; an entry with
\* existing = false is only appended at the end of FIELD_VALIDATION_TYPE,
\* for the id then pending; the adminFields INSERTs of a generated script
\* are the entries with existing = false
CancelledFieldForgotten ==
    /\ memory'.current_state \notin FieldCreationStates
       => IsNone(memory'.pending_field_id)
    /\ memory'.fields # memory.fields
       => \/ memory'.fields = <<>>
          \/ /\ Len(memory'.fields) = Len(memory.fields) + 1
             /\ SubSeq(memory'.fields, 1, Len(memory.fields)) = memory.fields
             /\ LET f == memory'.fields[Len(memory'.fields)]
                IN  ~f.existing
                    => /\ memory.current_state = FIELD_VALIDATION_TYPE
                       /\ ~IsNone(memory.pending_field_id)
                       /\ f.field_id = memory.pending_field_id
    /\ \A r \in Clients : \A today \in Dates :
          SqlReturn(r, "ok", today)
          => CountSection(out'.reply.tool_result, "adminFields")
                = Len(FieldsToCreate(memory))

IsBlank(u) == Strip(u) = <<>>

\* what C31 says of a validation type that is not blank
ValidationTypeAccepted(r, u) ==
    (FieldValidationTypeStep(r, u) /\ ~IsBlank(u))
    => /\ InList(Val(memory.pending_display_type), valid_types)
       /\ memory' = [memory EXCEPT
             !.fields = Append(@, [field_id |-> memory.pending_field_id,
                                   existing |-> FALSE,
                                   display_type |-> memory.pending_display_type,
                                   validation_type |-> Some(Upper(Strip(u)))]),
             !.pending_field_id = None,
             !.pending_display_type = None,
             !.pending_validation_type = None,
             !.current_state = FIELDS_NEEDED]

\* C31: in FIELD_VALIDATION_TYPE any non-empty text is accepted: the step
\* appends exactly one field {pending id, existing = false, pending display
\* type (one of the six valid types), the upper-cased input}, clears the
\* three pending slots and returns to FIELDS_NEEDED; an utterance that is
\* empty or only blanks appends nothing.
C31_ValidationTypeStep ==
    [][\A r \in Clients, u \in AllUtterances :
          /\ ValidationTypeAccepted(r, u)
          /\ (FieldValidationTypeStep(r, u) /\ IsBlank(u))
             => memory'.fields = memory.fields]_vars

\* the statement of C31 for the utterances that are not blank
C31_NonBlankAccepted ==
    [][\A r \in Clients, u \in AllUtterances :
          ValidationTypeAccepted(r, u)]_vars

\* C32: the pending slot is transient.  In every reachable state
\* pending_field_id is set exactly in FIELD_CREATION_CONFIRM,
\* FIELD_DISPLAY_TYPE and FIELD_VALIDATION_TYPE, pending_display_type is set
\* exactly in FIELD_VALIDATION_TYPE, and pending_validation_type is null
\* between steps.
C32_PendingIsTransient ==
    /\ ~IsNone(memory.pending_field_id)
          <=> memory.current_state \in FieldCreationStates
    /\ ~IsNone(memory.pending_display_type)
          <=> memory.current_state = FIELD_VALIDATION_TYPE
    /\ IsNone(memory.pending_validation_type)

\* a new field has been committed and the slots are empty again
C32_Witness ==
    /\ memory.current_state = FIELDS_NEEDED
    /\ Len(memory.fields) >= 1
    /\ ~memory.fields[Len(memory.fields)].existing
    /\ IsNone(memory.pending_field_id)
    /\ IsNone(memory.pending_display_type)

\* C33: in every reachable state event_id and page_id are equal, both null
\* or the same number: every step that writes one writes the other with the
\* same value.
C33_EventIdIsPageId ==
    memory.event_id = memory.page_id

\* the event lookup of an existing process has stored the two ids
C33_Witness ==
    /\ req[1].pc = "llm"
    /\ req[1].action_taken = "event_id_retrieved"
    /\ ~memory.is_new_process
    /\ ~IsNone(memory.event_id)
    /\ memory.page_id = memory.event_id

\* C34: EVENT_NEEDED is never entered with is_new_process = true.  The only
\* transition into EVENT_NEEDED is the found branch of PROCESS_NEEDED, which
\* sets is_new_process to false; a confirmed new process goes straight to
\* PAGE_TITLE_NEEDED; so every EVENT_NEEDED step issues the event lookup.
C34_EventNeededOnlyForExisting ==
    [][/\ memory'.current_state = EVENT_NEEDED => ~memory'.is_new_process
       /\ ( /\ memory.current_state # EVENT_NEEDED
            /\ memory'.current_state = EVENT_NEEDED )
          => \E r \in Clients :
                /\ ProcessLookupReturn(r, "ok")
                /\ req'[r].action_taken = "process_found"
       /\ \A r \in Clients, u \in AllUtterances :
             ProcessCreationConfirmStep(r, u)
             => memory'.current_state # EVENT_NEEDED
       /\ \A r \in Clients, u \in AllUtterances :
             EventNeededStep(r, u)
             => /\ req'[r].pc = "tool"
                /\ req'[r].call.tool = "get_events_for_process"]_vars

\* an EVENT_NEEDED step waits for the answer of the event lookup
C34_Witness ==
    /\ memory.current_state = EVENT_NEEDED
    /\ ~memory.is_new_process
    /\ req[1].pc = "tool"
    /\ req[1].call.tool = "get_events_for_process"

\* the collected values C35 names, apart from the field list
CollectedKeys ==
    { "org_id", "process_id", "event_id", "page_id", "page_title", "page_url" }

\* the field list after the step is the list before it, or that list with
\* one entry appended
AppendsAtMostOne(before, after) ==
    \/ after = before
    \/ /\ Len(after) = Len(before) + 1
       /\ SubSeq(after, 1, Len(before)) = before

\* C35: collected data is append-only between resets.  A step never removes,
\* reorders or modifies an entry of memory.fields and appends at most one;
\* and once org_id, process_id, event_id/page_id or page_title/page_url hold
\* a value, no later step changes them.
C35_AppendOnlyBetweenResets ==
    [][\/ \E r \in Clients : reset(r)
       \/ /\ AppendsAtMostOne(memory.fields, memory'.fields)
          /\ \A k \in CollectedKeys :
                ~IsNone(memory[k]) => memory'[k] = memory[k]]_vars

\* everything has been collected and a second field has just been appended
C35_Witness ==
    /\ memory.current_state = FIELDS_NEEDED
    /\ Len(memory.fields) = 2
    /\ \A k \in CollectedKeys : ~IsNone(memory[k])
    /\ req[1].pc = "llm"
    /\ req[1].action_taken \in {"field_added_existing", "field_added_new"}

(***************************************************************************)
(* Tool output the step cannot use.  _call_tool returns the text of the    *)
(* tool as it is; json.loads raises on a text that is not JSON, and        *)
(* int(result_data.get("processId")) raises when a found process carries   *)
(* no number.  Either exception leaves _execute_state_logic at the         *)
(* statement that parses, before any assignment to self.memory, and is     *)
(* caught by the except clause of chat(), which returns "Error: ...".      *)
(* generate_form_page_sql is the one tool whose text is not parsed.        *)
(***************************************************************************)
ParsedTools ==
    { "get_organization_by_name", "get_process_by_name", "get_max_process_id",
      "get_events_for_process", "generate_page_url", "check_field_exists" }

ToolFaults == { "not_json", "no_process_id" }

\* a faulty variant: the utterance is entered in the transcript before the
\* exception reaches chat()
UnparseableReturn_TranscriptExtended(r, fault) ==
    /\ req[r].pc = "tool"
    /\ req[r].call.tool \in ParsedTools
    /\ fault = "no_process_id" => req[r].call.tool = "get_process_by_name"
    /\ memory' = memory
    /\ conversation_history' = Append(conversation_history, "human")
    /\ Return(r, "none", req[r].tool_calls, [kind |-> "error"])
    /\ scn' = -1
    /\ overlaps' = overlaps

UnparseableReturn(r, fault) ==
    /\ req[r].pc = "tool"
    /\ req[r].call.tool \in ParsedTools
    /\ fault = "no_process_id" => req[r].call.tool = "get_process_by_name"
    /\ memory' = memory
    /\ conversation_history' = conversation_history
    /\ Return(r, "none", req[r].tool_calls, [kind |-> "error"])
    /\ scn' = -1
    /\ overlaps' = overlaps

NextFaulty ==
    \/ Serve(1)
    \/ \E fault \in ToolFaults : UnparseableReturn(1, fault)

SpecFaulty == Init /\ [][NextFaulty]_vars

\* the calls whose answer the step parses, by the state the step began in
ParsingStates ==
    { ORG_NEEDED, PROCESS_NEEDED, EVENT_NEEDED, PAGE_TITLE_NEEDED,
      FIELDS_NEEDED }

\* C36: a step is atomic with respect to unparseable tool output.  When a
\* tool result the step must parse is not valid JSON, or a found process has
\* no numeric processId, the chat step returns an error text and
\* current_state, every memory field and the transcript are as before the
\* step, in every state that parses a tool result.
C36_AtomicOnUnparseableOutput ==
    [][\A r \in Clients :
          \* up to the parse the step has written nothing
          /\ (req'[r].pc = "tool" /\ req'[r] # req[r]
                 /\ req'[r].call.tool \in ParsedTools)
             => /\ memory' = memory
                /\ conversation_history' = conversation_history
                /\ req'[r].state = memory.current_state
                /\ req'[r].state \in ParsingStates
          \* and the failing parse ends the call with an error text
          /\ \A fault \in ToolFaults :
                UnparseableReturn(r, fault)
                => /\ out'.reply = [kind |-> "error"]
                   /\ req'[r] = IdleRequest
                   /\ memory' = memory
                   /\ memory.current_state = req[r].state
                   /\ conversation_history' = conversation_history]_vars

\* the answer of the second call of a PROCESS_NEEDED step could not be
\* parsed: the step has ended with an error text and the state is unchanged
C36_Witness ==
    /\ out.reply = [kind |-> "error"]
    /\ out.tool_calls = 2
    /\ req[1].pc = "idle"
    /\ memory.current_state = PROCESS_NEEDED
    /\ IsNone(memory.process_name)

\* the actions a state-machine step reports when it has changed the state
TransitionActions ==
    { "workflow_started", "organization_found", "process_found",
      "process_not_found_ask_create", "new_process_confirmed",
      "process_name_retry", "event_id_retrieved", "page_title_set",
      "fields_complete", "field_not_found_ask_create", "new_field_confirmed",
      "field_creation_cancelled", "display_type_set", "field_added_new" }

\* C37: state transitions do not depend on the text-generation service.  If
\* text generation fails after the state machine step has run, the chat step
\* returns an error text, the transition and the memory updates of the step
\* are kept, and the transcript is not extended; the next utterance is
\* processed from the advanced state.
C37_TransitionsSurviveLLMFailure ==
    [][\A r \in Clients :
          \* the step has written the memory before text generation starts
          /\ (req'[r].pc = "llm" /\ req[r].pc # "llm"
                 /\ req'[r].action_taken \in TransitionActions)
             => memory'.current_state # memory.current_state
          \* text generation only reads: its failure keeps what the step wrote
          /\ LLMReturn(r, FALSE)
             => /\ out'.reply = [kind |-> "error"]
                /\ out'.action_taken = req[r].action_taken
                /\ memory' = memory
                /\ conversation_history' = conversation_history
                /\ req'[r] = IdleRequest]_vars

\* every reply so far was an error text of the text generation, and the
\* workflow has advanced to the collection of fields all the same
C37_Witness ==
    /\ conversation_history = <<>>
    /\ out.reply = [kind |-> "error"]
    /\ out.action_taken = "page_title_set"
    /\ memory.current_state = FIELDS_NEEDED
    /\ ~IsNone(memory.page_url)
    /\ req[1].pc = "idle"

\* the states only the extended engine (clientreset.py) has
ExtendedOnlyStates ==
    { PROCESS_CREATION_CONFIRM, FIELD_CREATION_CONFIRM, FIELD_DISPLAY_TYPE,
      FIELD_VALIDATION_TYPE }

\* a tool of the extended engine answers, and its lookup finds
NoMissReturn(r) ==
    \/ OrgLookupReturn(r, "ok") /\ req'[r].action_taken = "organization_found"
    \/ ProcessLookupReturn(r, "ok") /\ req'[r].action_taken = "process_found"
    \/ EventLookupReturn(r, "ok")
    \/ PageUrlReturn(r, "ok") /\ req'[r].action_taken = "page_title_set"
    \/ FieldLookupReturn(r, "ok")
          /\ req'[r].action_taken = "field_added_existing"
    \/ \E today \in Dates : SqlReturn(r, "ok", today)

\* the same for the basic engine (mcpclient.py)
mcpclient_NoMissReturn(r) ==
    \/ OrgLookupReturn(r, "ok") /\ req'[r].action_taken = "organization_found"
    \/ mcpclient_ProcessLookupReturn(r, "ok")
          /\ req'[r].action_taken = "process_found"
    \/ mcpclient_EventLookupReturn(r, "ok")
    \/ PageUrlReturn(r, "ok") /\ req'[r].action_taken = "page_title_set"
    \/ mcpclient_FieldLookupReturn(r, "ok")
          /\ req'[r].action_taken = "field_added_existing"
    \/ \E today \in Dates : SqlReturn(r, "ok", today)

\* C38: the two workflow engines are equivalent on the no-miss path.  Where
\* every lookup answers found and every tool call succeeds, each step of the
\* extended engine is the step the basic engine takes from the same memory on
\* the same utterance: the same next state, the same organization, process,
\* event, page and field values, the same tool call.
C38_ExtendedStepsAreBasicSteps ==
    [][\A r \in Clients :
          /\ (ChatStep(r) /\ memory.current_state \notin ExtendedOnlyStates)
             => mcpclient_ChatStep(r)
          /\ NoMissReturn(r) => mcpclient_NoMissReturn(r)
          /\ NoMissReturn(r)
             => memory'.current_state \notin ExtendedOnlyStates]_vars

\* the converse of C38, stated of the steps of the basic engine
C38_BasicStepsAreExtendedSteps ==
    [][\A r \in Clients :
          /\ mcpclient_ChatStep(r) => ChatStep(r)
          /\ mcpclient_NoMissReturn(r) => NoMissReturn(r)]_vars

\* a conversation without a miss has run to its end: an existing process,
\* existing fields only, the script generated
C38_Witness ==
    /\ memory.current_state = COMPLETE
    /\ out.action_taken = "sql_generated"
    /\ ~memory.is_new_process
    /\ IsNone(memory.suggested_process_id)
    /\ ~IsNone(memory.event_id)
    /\ Len(memory.fields) >= 1
    /\ \A i \in 1..Len(memory.fields) : memory.fields[i].existing

\* no two entries of the list bear the same field id, whatever the casing
DistinctFieldIds(fields) ==
    \A i, j \in 1..Len(fields) :
       i < j => Lower(Val(fields[i].field_id)) # Lower(Val(fields[j].field_id))

\* no two blocks of the section name the same field
DistinctInserts(text, section) ==
    LET blocks == SectionBlocks(text, section)
    IN  \A i, j \in 1..Len(blocks) : i < j => blocks[i].fieldId # blocks[j].fieldId

\* C39: memory.fields never holds two entries with the same field id
\* (compared without regard to case), so a generated script never has two
\* adminFields INSERTs for one fieldId nor two orgPageValues rows for one
\* field of the page.
C39_NoDuplicateFields ==
    /\ DistinctFieldIds(memory.fields)
    /\ out.action_taken = "sql_generated" /\ "tool_result" \in DOMAIN out.reply
       => /\ DistinctInserts(out.reply.tool_result, "adminFields")
          /\ DistinctInserts(out.reply.tool_result, "orgPageValues")

\* the part of C39 about the script, on its own
C39_NoDuplicateInserts ==
    out.action_taken = "sql_generated" /\ "tool_result" \in DOMAIN out.reply
    => /\ DistinctInserts(out.reply.tool_result, "adminFields")
       /\ DistinctInserts(out.reply.tool_result, "orgPageValues")

\* the step of caller r began before a reset and is still suspended on its
\* tool call: the memory is the fresh one, which no step of the state machine
\* that calls a tool starts from
SuspendedAcrossReset(r) ==
    /\ req[r].pc = "tool"
    /\ req[r].state # IDLE
    /\ Fresh(memory)
    /\ conversation_history = <<>>

\* C40: a reset that arrives through the HTTP layer while a chat step is
\* suspended on a tool call still yields a clean session: when the suspended
\* step resumes after the reset, current_state stays IDLE and the memory
\* receives no value from that step.
C40_ResetSurvivesSuspendedStep ==
    [][\A r \in Clients :
          (SuspendedAcrossReset(r) /\ ToolReturn(r)) => Fresh(memory')]_vars

=============================================================================
